---- MODULE Spec2Model ----
(***************************************************************************)
(* A model of the cpppwn HTTP engine: the request parser, the response     *)
(* serializer, the routing / middleware / static-file dispatch of          *)
(* HttpServer::handle_client, the accept loop of HttpServer::start with    *)
(* HttpServer::stop, and the RESTServer resource mapper and error          *)
(* translation built on them.                                              *)
(*                                                                         *)
(* Strings are TLA+ strings.  Positions are 1-based; 0 plays the part of   *)
(* std::string::npos.                                                      *)
(***************************************************************************)
EXTENDS Integers, Sequences, FiniteSets, TLC

VARIABLES
  kind,               \* "http": a bare HttpServer; "rest": a RESTServer around one
  routes_,            \* HttpServer::routes_        "METHOD path" -> handler
  middlewares_,       \* HttpServer::middlewares_   in registration order
  static_routes_,     \* HttpServer::static_routes_ prefix -> directory
  not_found_handler_, \* RESTServer::not_found_handler_
  error_handler_,     \* RESTServer::error_handler_
  running_,           \* HttpServer::running_ (std::atomic<bool>)
  listener,           \* the listening endpoint of server_: "open" or "closed"
  startPc,            \* position of each thread that calls start()
  stopPc,             \* position of each thread that calls stop()
  stopAfterStart,     \* stop() was called once start() had been invoked
  regs,               \* registration calls made so far
  conns,              \* one record per accepted connection (its handler thread)
  terminated,         \* std::terminate has ended the process
  obj,                \* an HttpResponse the application is building
  call,               \* the last library call the application made directly
  ncalls              \* how many calls it has made on obj

vars == << kind, routes_, middlewares_, static_routes_, not_found_handler_,
           error_handler_, running_, listener, startPc, stopPc, stopAfterStart,
           regs, conns, terminated,
           obj, call, ncalls >>

config == << kind, routes_, middlewares_, static_routes_, not_found_handler_,
             error_handler_, regs >>

lifecycle == << running_, listener, startPc, stopPc, stopAfterStart >>

\* the application's direct use of the library
harness == << obj, call, ncalls >>

-----------------------------------------------------------------------------
(* Bounds of the model.                                                    *)

MaxRegs == 2        \* registration calls made before serving

MaxConns == 2       \* connections the accept loop hands out

MaxCalls == 3       \* calls the application makes on one response object

-----------------------------------------------------------------------------
(* Strings.                                                                *)

Min(a, b) == IF a < b THEN a ELSE b

\* Op applied to the value of v, which is computed once
With(v, Op(_)) == CHOOSE r \in { Op(x) : x \in {v} } : TRUE

CharAt(s, i) == SubSeq(s, i, i)

\* std::string::substr(pos) with a 1-based pos
SubstrFrom(s, i) == SubSeq(s, i, Len(s))

\* std::string::find(sub, pos): the first 1-based index >= i at which sub
\* occurs in s, 0 when there is none
RECURSIVE FindFrom(_, _, _)
FindFrom(s, sub, i) ==
  IF i + Len(sub) - 1 > Len(s) THEN 0
  ELSE IF SubSeq(s, i, i + Len(sub) - 1) = sub THEN i
  ELSE FindFrom(s, sub, i + 1)

Find(s, sub) == FindFrom(s, sub, 1)

Contains(s, sub) == Find(s, sub) # 0

\* path.find(prefix) == 0
StartsWith(s, prefix) == Find(s, prefix) = 1

Upper == "ABCDEFGHIJKLMNOPQRSTUVWXYZ"

Lower == "abcdefghijklmnopqrstuvwxyz"

\* the lower-case letter of each upper-case letter
LowerOf ==
  [c \in { CharAt(Upper, i) : i \in 1..Len(Upper) } |-> CharAt(Lower, Find(Upper, c))]

\* ::tolower on one character
ToLowerChar(c) == IF c \in DOMAIN LowerOf THEN LowerOf[c] ELSE c

\* std::transform(s.begin(), s.end(), s.begin(), ::tolower)
RECURSIVE ToLowerFrom(_, _)
ToLowerFrom(s, i) ==
  IF i > Len(s) THEN "" ELSE ToLowerChar(CharAt(s, i)) \o ToLowerFrom(s, i + 1)

ToLower(s) == ToLowerFrom(s, 1)

\* s.find_first_not_of(set): 0 when every character of s is in set
RECURSIVE FirstNotOf(_, _, _)
FirstNotOf(s, set, i) ==
  IF i > Len(s) THEN 0
  ELSE IF CharAt(s, i) \notin set THEN i
  ELSE FirstNotOf(s, set, i + 1)

\* s.find_last_not_of(set), searched downwards from i
RECURSIVE LastNotOf(_, _, _)
LastNotOf(s, set, i) ==
  IF i < 1 THEN 0
  ELSE IF CharAt(s, i) \notin set THEN i
  ELSE LastNotOf(s, set, i - 1)

\* v.erase(0, v.find_first_not_of(" \t"));
\* v.erase(v.find_last_not_of(" \t\r\n") + 1);
TrimValue(v) ==
  LET f == FirstNotOf(v, {" ", "\t"}, 1)
      a == IF f = 0 THEN "" ELSE SubstrFrom(v, f)
      l == LastNotOf(a, {" ", "\t", "\r", "\n"}, Len(a))
  IN SubSeq(a, 1, l)

Space == {" ", "\t", "\n", "\r"}

\* one `stream >> token`: skip white space, then take the run of other
\* characters; tok is "" when the stream is exhausted
NextToken(s, p) ==
  LET RECURSIVE Skip(_)
      Skip(i) == IF i <= Len(s) /\ CharAt(s, i) \in Space THEN Skip(i + 1) ELSE i
      b == Skip(p)
      RECURSIVE Run(_)
      Run(i) == IF i <= Len(s) /\ CharAt(s, i) \notin Space THEN Run(i + 1) ELSE i
      e == Run(b)
  IN [tok |-> SubSeq(s, b, e - 1), pos |-> e]

Digits == "0123456789"

IsDigit(c) == c # "" /\ Contains(Digits, c)

DigitVal(c) == Find(Digits, c) - 1

RECURSIVE DigitsToNat(_, _, _)
DigitsToNat(s, i, acc) ==
  IF i <= Len(s) /\ IsDigit(CharAt(s, i))
  THEN DigitsToNat(s, i + 1, acc * 10 + DigitVal(CharAt(s, i)))
  ELSE acc

-----------------------------------------------------------------------------
(* Maps (std::map<std::string, T>).                                        *)

EmptyMap == [k \in {} |-> ""]

MapSet(m, k, v) == [x \in (DOMAIN m) \cup {k} |-> IF x = k THEN v ELSE m[x]]

PrintableLo ==
  " !\"#$%&'()*+,-./0123456789:;<=>?@ABCDEFGHIJKLMNOPQRSTUVWXYZ[\\]^_"

PrintableHi == "abcdefghijklmnopqrstuvwxyz{|}~"

\* the character's code, which orders std::string keys
Codes ==
  [c \in {"\t", "\n", "\r"}
          \cup { CharAt(PrintableLo, i) : i \in 1..Len(PrintableLo) }
          \cup { CharAt(PrintableHi, i) : i \in 1..Len(PrintableHi) } |->
     IF c = "\t" THEN 9 ELSE IF c = "\n" THEN 10 ELSE IF c = "\r" THEN 13
     ELSE IF Contains(PrintableLo, c) THEN 31 + Find(PrintableLo, c)
     ELSE 96 + Find(PrintableHi, c)]

Ord(c) == Codes[c]

\* std::less<std::string>
RECURSIVE StrLessFrom(_, _, _)
StrLessFrom(a, b, i) ==
  IF i > Len(b) THEN FALSE
  ELSE IF i > Len(a) THEN TRUE
  ELSE IF CharAt(a, i) = CharAt(b, i) THEN StrLessFrom(a, b, i + 1)
  ELSE Ord(CharAt(a, i)) < Ord(CharAt(b, i))

StrLess(a, b) == StrLessFrom(a, b, 1)

\* the keys of a std::map in iteration order
RECURSIVE SortedKeys(_)
SortedKeys(ks) ==
  IF ks = {} THEN << >>
  ELSE With(CHOOSE k \in ks : \A o \in ks \ {k} : StrLess(k, o),
            LAMBDA m : << m >> \o SortedKeys(ks \ {m}))

-----------------------------------------------------------------------------
(* The message model: HttpResponse.                                        *)

\* HttpResponse::get_status_message
get_status_message(code) ==
  CASE code = 200 -> "OK"
    [] code = 201 -> "Created"
    [] code = 204 -> "No Content"
    [] code = 301 -> "Moved Permanently"
    [] code = 302 -> "Found"
    [] code = 303 -> "See Other"
    [] code = 304 -> "Not Modified"
    [] code = 307 -> "Temporary Redirect"
    [] code = 308 -> "Permanent Redirect"
    [] code = 400 -> "Bad Request"
    [] code = 401 -> "Unauthorized"
    [] code = 403 -> "Forbidden"
    [] code = 404 -> "Not Found"
    [] code = 405 -> "Method Not Allowed"
    [] code = 409 -> "Conflict"
    [] code = 413 -> "Payload Too Large"
    [] code = 415 -> "Unsupported Media Type"
    [] code = 429 -> "Too Many Requests"
    [] code = 500 -> "Internal Server Error"
    [] code = 501 -> "Not Implemented"
    [] code = 502 -> "Bad Gateway"
    [] code = 503 -> "Service Unavailable"
    [] OTHER -> "Unknown"

\* HttpResponse::HttpResponse(int code)
HttpResponse(code) ==
  [status_code |-> code, status_message |-> get_status_message(code),
   headers |-> EmptyMap, cookies |-> << >>, body |-> ""]

\* HttpResponse::set_status
set_status(r, code) ==
  [r EXCEPT !.status_code = code, !.status_message = get_status_message(code)]

\* HttpResponse::set_header
set_header(r, name, value) == [r EXCEPT !.headers = MapSet(r.headers, name, value)]

\* set_body without the recomputation of Content-Length
set_bodyKeepingLength(r, content) == [r EXCEPT !.body = content]

\* HttpResponse::set_body
set_body(r, content) ==
  set_header([r EXCEPT !.body = content], "Content-Length", ToString(Len(content)))

\* HttpResponse::set_json
set_json(r, json) == set_body(set_header(r, "Content-Type", "application/json"), json)

\* set_html storing the body without going through set_body
set_htmlWithoutLength(r, html) ==
  [set_header(r, "Content-Type", "text/html; charset=utf-8") EXCEPT !.body = html]

\* HttpResponse::set_html
set_html(r, html) ==
  set_body(set_header(r, "Content-Type", "text/html; charset=utf-8"), html)

\* CookieOptions with its default member initialisers
CookieOptions ==
  [max_age |-> 0, path |-> "/", domain |-> "", secure |-> FALSE,
   http_only |-> TRUE, same_site |-> "Lax"]

\* HttpResponse::set_cookie
set_cookie(r, name, value, options) ==
  [r EXCEPT !.cookies = Append(r.cookies,
     name \o "=" \o value
     \o (IF options.max_age > 0 THEN "; Max-Age=" \o ToString(options.max_age) ELSE "")
     \o (IF options.path # "" THEN "; Path=" \o options.path ELSE "")
     \o (IF options.domain # "" THEN "; Domain=" \o options.domain ELSE "")
     \o (IF options.secure THEN "; Secure" ELSE "")
     \o (IF options.http_only THEN "; HttpOnly" ELSE "")
     \o (IF options.same_site # "" THEN "; SameSite=" \o options.same_site ELSE ""))]

\* HttpResponse::redirect
redirect(r, location, code) ==
  set_header([r EXCEPT !.status_code = code,
                       !.status_message = get_status_message(code)],
             "Location", location)

\* get_http_date(): the wall clock is outside the model; one fixed instant
HttpDate == "Thu, 01 Jan 1970 00:00:00 GMT"

RECURSIVE HeaderLines(_, _)
HeaderLines(h, ks) ==
  IF ks = << >> THEN ""
  ELSE Head(ks) \o ": " \o h[Head(ks)] \o "\r\n" \o HeaderLines(h, Tail(ks))

RECURSIVE CookieLines(_)
CookieLines(cs) ==
  IF cs = << >> THEN ""
  ELSE "Set-Cookie: " \o Head(cs) \o "\r\n" \o CookieLines(Tail(cs))

\* to_string with the Set-Cookie lines written before the headers
to_stringCookiesFirst(r) ==
  "HTTP/1.1 " \o ToString(r.status_code) \o " " \o r.status_message \o "\r\n"
  \o "Date: " \o HttpDate \o "\r\n"
  \o "Server: cpppwn-http/1.0\r\n"
  \o CookieLines(r.cookies)
  \o HeaderLines(r.headers, SortedKeys(DOMAIN r.headers))
  \o "\r\n"
  \o (IF r.body # "" THEN r.body ELSE "")

\* HttpResponse::to_string
to_string(r) ==
  "HTTP/1.1 " \o ToString(r.status_code) \o " " \o r.status_message \o "\r\n"
  \o "Date: " \o HttpDate \o "\r\n"
  \o "Server: cpppwn-http/1.0\r\n"
  \o HeaderLines(r.headers, SortedKeys(DOMAIN r.headers))
  \o CookieLines(r.cookies)
  \o "\r\n"
  \o (IF r.body # "" THEN r.body ELSE "")

-----------------------------------------------------------------------------
(* The message model: HttpRequest and the parser.                          *)

\* std::getline(stream, token, delim): the text from p up to the next delim
\* (consumed and dropped); ok is FALSE when nothing is left to read
GetToken(s, p, delim) ==
  With(FindFrom(s, delim, p), LAMBDA e :
    IF p > Len(s) THEN [ok |-> FALSE, line |-> "", pos |-> p]
    ELSE IF e = 0 THEN [ok |-> TRUE, line |-> SubstrFrom(s, p), pos |-> Len(s) + 1]
    ELSE [ok |-> TRUE, line |-> SubSeq(s, p, e - 1), pos |-> e + 1])

HexDigits == "0123456789ABCDEF"

IsHex(c) == c # "" /\ (Contains(HexDigits, c) \/ Contains("abcdef", c))

HexVal(c) ==
  IF Contains(HexDigits, c) THEN Find(HexDigits, c) - 1 ELSE 9 + Find("abcdef", c)

\* the character with the code n, for the codes the model's strings hold
HasChr(n) == n \in {9, 10, 13} \cup (32..95) \cup (97..126)

Chr(n) ==
  IF n = 9 THEN "\t" ELSE IF n = 10 THEN "\n" ELSE IF n = 13 THEN "\r"
  ELSE IF n <= 95 THEN CharAt(PrintableLo, n - 31)
  ELSE CharAt(PrintableHi, n - 96)

\* url_decode: %XX is the character with that code, + is a space, every
\* other character stands for itself
RECURSIVE url_decode_from(_, _)
url_decode_from(s, i) ==
  IF i > Len(s) THEN ""
  ELSE IF CharAt(s, i) = "+" THEN " " \o url_decode_from(s, i + 1)
  ELSE IF /\ CharAt(s, i) = "%"
          /\ i + 2 <= Len(s)
          /\ IsHex(CharAt(s, i + 1)) /\ IsHex(CharAt(s, i + 2))
          /\ HasChr(16 * HexVal(CharAt(s, i + 1)) + HexVal(CharAt(s, i + 2)))
  THEN Chr(16 * HexVal(CharAt(s, i + 1)) + HexVal(CharAt(s, i + 2)))
       \o url_decode_from(s, i + 3)
  ELSE CharAt(s, i) \o url_decode_from(s, i + 1)

url_decode(s) == url_decode_from(s, 1)

\* a pair put into params only when its key is not there yet
QueryPairFirstWins(params, pair) ==
  With(Find(pair, "="), LAMBDA eq :
    With(url_decode(IF eq # 0 THEN SubSeq(pair, 1, eq - 1) ELSE pair), LAMBDA key :
      IF key \in DOMAIN params THEN params
      ELSE MapSet(params, key, IF eq # 0 THEN url_decode(SubstrFrom(pair, eq + 1)) ELSE "")))

\* one pair of parse_query_string put into params
QueryPair(params, pair) ==
  With(Find(pair, "="), LAMBDA eq :
    IF eq # 0
    THEN MapSet(params, url_decode(SubSeq(pair, 1, eq - 1)),
                url_decode(SubstrFrom(pair, eq + 1)))
    ELSE MapSet(params, url_decode(pair), ""))

RECURSIVE QueryPairs(_, _, _)
QueryPairs(query, p, params) ==
  With(GetToken(query, p, "&"), LAMBDA g :
    IF ~g.ok THEN params
    ELSE With(QueryPair(params, g.line), LAMBDA ps : QueryPairs(query, g.pos, ps)))

\* parse_query_string
parse_query_string(query) == QueryPairs(query, 1, EmptyMap)

\* a cookie piece stored as it stands between the ';', blanks included
CookiePairUntrimmed(cookies, pair) ==
  With(Find(pair, "="), LAMBDA eq :
    IF eq # 0 THEN MapSet(cookies, SubSeq(pair, 1, eq - 1), SubstrFrom(pair, eq + 1))
    ELSE cookies)

\* one piece of parse_cookies: blanks and tabs erased at both ends, then the
\* piece is stored under the text before its first '=' when it has one
CookiePair(cookies, pair) ==
  With(FirstNotOf(pair, {" ", "\t"}, 1), LAMBDA f :
    With(IF f = 0 THEN "" ELSE SubstrFrom(pair, f), LAMBDA a :
      With(SubSeq(a, 1, LastNotOf(a, {" ", "\t"}, Len(a))), LAMBDA trimmed :
        With(Find(trimmed, "="), LAMBDA eq :
          IF eq # 0
          THEN MapSet(cookies, SubSeq(trimmed, 1, eq - 1), SubstrFrom(trimmed, eq + 1))
          ELSE cookies))))

RECURSIVE CookiePairs(_, _, _)
CookiePairs(cookie_header, p, cookies) ==
  With(GetToken(cookie_header, p, ";"), LAMBDA g :
    IF ~g.ok THEN cookies
    ELSE With(CookiePair(cookies, g.line), LAMBDA cs :
           CookiePairs(cookie_header, g.pos, cs)))

\* parse_cookies
parse_cookies(cookie_header) == CookiePairs(cookie_header, 1, EmptyMap)

\* HttpRequest::get_header
get_header(request, name) ==
  With(ToLower(name), LAMBDA lower_name :
    IF lower_name \in DOMAIN request.headers THEN request.headers[lower_name] ELSE "")

\* HttpRequest::has_header
has_header(request, name) == ToLower(name) \in DOMAIN request.headers

\* std::getline(stream, line): the line from p up to the next '\n' (which is
\* consumed and dropped); ok is FALSE when nothing is left to read
GetLine(s, p) ==
  LET e == FindFrom(s, "\n", p)
  IN IF p > Len(s) THEN [ok |-> FALSE, line |-> "", pos |-> p]
     ELSE IF e = 0 THEN [ok |-> TRUE, line |-> SubstrFrom(s, p), pos |-> Len(s) + 1]
     ELSE [ok |-> TRUE, line |-> SubSeq(s, p, e - 1), pos |-> e + 1]

\* the header loop storing each name as it was received, not lower-cased
RECURSIVE ParseHeadersKeepingCase(_, _, _)
ParseHeadersKeepingCase(s, p, hs) ==
  With(GetLine(s, p), LAMBDA g :
    IF ~g.ok \/ g.line = "\r" THEN [headers |-> hs, pos |-> g.pos, ub |-> FALSE]
    ELSE IF g.line = "" THEN [headers |-> hs, pos |-> g.pos, ub |-> TRUE]
    ELSE With(IF CharAt(g.line, Len(g.line)) = "\r"
              THEN SubSeq(g.line, 1, Len(g.line) - 1) ELSE g.line,
         LAMBDA line :
           With(Find(line, ":"), LAMBDA colon :
             IF colon # 0
             THEN With(MapSet(hs, SubSeq(line, 1, colon - 1),
                                  TrimValue(SubstrFrom(line, colon + 1))),
                       LAMBDA h2 : ParseHeadersKeepingCase(s, g.pos, h2))
             ELSE ParseHeadersKeepingCase(s, g.pos, hs))))

\* the header loop of parse_request; an empty line makes header_line.back()
\* read before the string (undefined): ub records that it happened
RECURSIVE ParseHeaders(_, _, _)
ParseHeaders(s, p, hs) ==
  With(GetLine(s, p), LAMBDA g :
    IF ~g.ok \/ g.line = "\r" THEN [headers |-> hs, pos |-> g.pos, ub |-> FALSE]
    ELSE IF g.line = "" THEN [headers |-> hs, pos |-> g.pos, ub |-> TRUE]
    ELSE With(IF CharAt(g.line, Len(g.line)) = "\r"
              THEN SubSeq(g.line, 1, Len(g.line) - 1) ELSE g.line,
         LAMBDA line :
           With(Find(line, ":"), LAMBDA colon :
             IF colon # 0
             THEN With(MapSet(hs, ToLower(SubSeq(line, 1, colon - 1)),
                                  TrimValue(SubstrFrom(line, colon + 1))),
                       LAMBDA h2 : ParseHeaders(s, g.pos, h2))
             ELSE ParseHeaders(s, g.pos, hs))))

\* the request line: line_stream >> method >> full_path >> http_version
RequestLine(line) ==
  With(NextToken(line, 1), LAMBDA t1 :
    With(NextToken(line, t1.pos), LAMBDA t2 :
      [method |-> t1.tok, full_path |-> t2.tok,
       http_version |-> NextToken(line, t2.pos).tok]))

\* the form fields of parse_request: the body read as a query string when the
\* content type names application/x-www-form-urlencoded
FormData(headers, body) ==
  IF Contains(get_header([headers |-> headers], "content-type"),
              "application/x-www-form-urlencoded")
  THEN parse_query_string(body) ELSE EmptyMap

\* HttpServer::parse_request
parse_request(raw) ==
  With(GetLine(raw, 1), LAMBDA rl :
    With(RequestLine(rl.line), LAMBDA t :
      With(ParseHeaders(raw, rl.pos, EmptyMap), LAMBDA hp :
        With(Find(t.full_path, "?"), LAMBDA query_pos :
          [method |-> t.method,
           path |-> IF query_pos # 0 THEN SubSeq(t.full_path, 1, query_pos - 1)
                    ELSE t.full_path,
           query |-> IF query_pos # 0 THEN SubstrFrom(t.full_path, query_pos + 1)
                     ELSE "",
           query_params |-> IF query_pos # 0
                            THEN parse_query_string(SubstrFrom(t.full_path, query_pos + 1))
                            ELSE EmptyMap,
           http_version |-> t.http_version,
           headers |-> hp.headers,
           cookies |-> IF has_header([headers |-> hp.headers], "cookie")
                       THEN parse_cookies(get_header([headers |-> hp.headers], "cookie"))
                       ELSE EmptyMap,
           body |-> SubstrFrom(raw, hp.pos),
           form_data |-> FormData(hp.headers, SubstrFrom(raw, hp.pos)),
           ub |-> hp.ub]))))

-----------------------------------------------------------------------------
(* User code.  Handlers and middlewares are callbacks supplied by the      *)
(* application; each name below stands for one such callback and the       *)
(* operators give what it does when called.                                *)

NoExc == [type |-> "none", status_code |-> 0, status_message |-> "", what |-> ""]

\* an exception derived from std::exception, e.g. std::runtime_error(what)
StdExc(what) == [type |-> "std", status_code |-> 0, status_message |-> "", what |-> what]

\* a thrown value whose type is not derived from std::exception (throw 42)
OtherExc == [type |-> "other", status_code |-> 0, status_message |-> "", what |-> ""]

\* RESTException(status_code, status_message, detail); what() is the detail
RESTException(code, message, detail) ==
  [type |-> "rest", status_code |-> code, status_message |-> message, what |-> detail]

Returned(resp) == [kind |-> "return", resp |-> resp, exc |-> NoExc]

Thrown(exc) == [kind |-> "throw", resp |-> HttpResponse(200), exc |-> exc]

UserHandlers == {"pong", "show", "boom", "crash", "missing", "dup"}

\* what the user's handler does when called with the request and, for the
\* id-taking resource handlers, the id
UserCall(h, req, id) ==
  CASE h = "pong" -> Returned(set_body(HttpResponse(200), "pong"))
    [] h = "show" -> Returned(set_body(HttpResponse(200), id))
    [] h = "boom" -> Thrown(StdExc("boom"))
    [] h = "crash" -> Thrown(OtherExc)
    [] h = "missing" -> Thrown(RESTException(404, "Not Found", "no such user"))
    [] h = "dup" -> Thrown(RESTException(409, "Conflict", "user \"bob\" exists"))

UserMiddlewares == {"tag", "deny", "halt", "mwboom"}

\* the arguments the application gives to RESTServer::enable_cors
CorsConfig == [origin |-> "*", methods |-> "GET, POST", headers |-> "Content-Type"]

\* the lambda RESTServer::enable_cors registers, called "cors" in
\* middlewares_: three set_header calls on the response, then return true
CorsMiddleware(res) ==
  set_header(set_header(set_header(res,
      "Access-Control-Allow-Origin", CorsConfig.origin),
      "Access-Control-Allow-Methods", CorsConfig.methods),
      "Access-Control-Allow-Headers", CorsConfig.headers)

\* what the user's middleware does with (request, response&): the response
\* as it leaves it, and the bool it returns
MiddlewareCall(m, req, res) ==
  CASE m = "tag" ->
         [kind |-> "return", ret |-> TRUE, res |-> set_header(res, "X-Tag", "1"),
          exc |-> NoExc]
    [] m = "deny" ->
         [kind |-> "return", ret |-> FALSE,
          res |-> set_body(set_status(res, 401), "denied"), exc |-> NoExc]
    [] m = "halt" ->
         [kind |-> "return", ret |-> FALSE, res |-> set_status(res, 403),
          exc |-> NoExc]
    [] m = "mwboom" ->
         [kind |-> "throw", ret |-> FALSE, res |-> res, exc |-> StdExc("mwboom")]
    [] m = "cors" ->
         [kind |-> "return", ret |-> TRUE, res |-> CorsMiddleware(res), exc |-> NoExc]

\* one entry of a connection's call log
Event(ev, who, arg) == [ev |-> ev, who |-> who, arg |-> arg]

-----------------------------------------------------------------------------
(* RESTServer: JSON helper, error translation, resource wrappers.          *)

RECURSIVE JsonPairs(_, _)
JsonPairs(data, ks) ==
  IF ks = << >> THEN ""
  ELSE "\"" \o Head(ks) \o "\":\"" \o data[Head(ks)] \o "\""
       \o (IF Len(ks) > 1 THEN "," ELSE "") \o JsonPairs(data, Tail(ks))

\* RESTServer::json_response(status_code, data)
json_response(status_code, data) ==
  set_json(HttpResponse(status_code),
           "{" \o JsonPairs(data, SortedKeys(DOMAIN data)) \o "}")

ErrorBody(error, message) == MapSet(MapSet(EmptyMap, "error", error), "message", message)

\* RESTServer::extract_id_from_path
extract_id_from_path(path, resource) ==
  LET prefix == "/" \o resource \o "/"
  IN IF StartsWith(path, prefix) THEN SubstrFrom(path, Len(prefix) + 1) ELSE ""

\* a handler as stored in routes_:
\*   wrap "direct"    a RouteHandler given to HttpServer::route by the user
\*   wrap "json"      the lambda of RESTServer::get/post/put/del/patch, which
\*                    runs handle_json_request around a JsonHandler
\*   wrap "not_found" the lambda of RESTServer::on_not_found
\* fn says which JsonHandler is inside: the user's own ("user") or one of
\* the lambdas of RESTServer::resource, for the resource called name
Handler(wrap, fn, name, user) == [wrap |-> wrap, fn |-> fn, name |-> name, user |-> user]

NoHandler == Handler("", "", "", "")

EmptyRoutes == [k \in {} |-> NoHandler]

\* the JsonHandler inside a "json" route: the user's own handler or one of
\* the lambdas of RESTServer::resource
JsonHandlerCall(h, req) ==
  With(extract_id_from_path(req.path, h.name), LAMBDA id :
    CASE h.fn \in {"user", "list", "create"} ->
           [out |-> UserCall(h.user, req, ""), log |-> << Event("user", h.user, "") >>]
      [] h.fn \in {"retrieve", "update", "partial_update"} ->
           [out |-> UserCall(h.user, req, id), log |-> << Event("user", h.user, id) >>]
      [] h.fn = "destroy" ->
           With(UserCall(h.user, req, id), LAMBDA c :
             [out |-> IF c.kind = "return"
                      THEN Returned(json_response(204, EmptyMap)) ELSE c,
              log |-> << Event("user", h.user, id) >>]))

\* the std::function stored in error_handler_ (the default one of
\* setup_error_handlers)
ErrorHandlerCall(eh, req, e) ==
  json_response(500, ErrorBody("Internal Server Error", e.what))

\* handle_json_request with the catch clauses in the wrong order: the clause
\* for std::exception, a base of RESTException, comes first
handle_json_requestBaseFirst(h, req, eh) ==
  With(JsonHandlerCall(h, req), LAMBDA c :
    IF c.out.kind = "return" THEN c
    ELSE IF c.out.exc.type \in {"rest", "std"}
    THEN IF eh # ""
         THEN [out |-> Returned(ErrorHandlerCall(eh, req, c.out.exc)),
               log |-> c.log \o << Event("error_handler", eh, "") >>]
         ELSE [out |-> Returned(json_response(500,
                          ErrorBody("Internal Server Error", c.out.exc.what))),
               log |-> c.log]
    ELSE c)

\* RESTServer::handle_json_request
handle_json_request(h, req, eh) ==
  With(JsonHandlerCall(h, req), LAMBDA c :
    IF c.out.kind = "return" THEN c
    ELSE IF c.out.exc.type = "rest"
    THEN [out |-> Returned(json_response(c.out.exc.status_code,
                     ErrorBody(c.out.exc.status_message, c.out.exc.what))),
          log |-> c.log]
    ELSE IF c.out.exc.type = "std"
    THEN IF eh # ""
         THEN [out |-> Returned(ErrorHandlerCall(eh, req, c.out.exc)),
               log |-> c.log \o << Event("error_handler", eh, "") >>]
         ELSE [out |-> Returned(json_response(500,
                          ErrorBody("Internal Server Error", c.out.exc.what))),
               log |-> c.log]
    ELSE c)

\* the std::function stored in not_found_handler_
NotFoundHandlerCall(nf, req) ==
  IF nf = "default_not_found"
  THEN [out |-> Returned(json_response(404,
                   ErrorBody("Not Found", "The requested resource was not found"))),
        log |-> << >>]
  ELSE [out |-> UserCall(nf, req, ""), log |-> << Event("user", nf, "") >>]

\* calling a RouteHandler stored in routes_
Invoke(h, req, nf, eh) ==
  CASE h.wrap = "direct" ->
         [out |-> UserCall(h.user, req, ""), log |-> << Event("user", h.user, "") >>]
    [] h.wrap = "json" -> handle_json_request(h, req, eh)
    [] h.wrap = "not_found" -> NotFoundHandlerCall(nf, req)

-----------------------------------------------------------------------------
(* The static file resolver.  The file system is outside the program; the  *)
(* model fixes a small one.                                                *)

FsDirs == {"./www", "./www/", "./public", "./public/"}

FsFiles ==
  [p \in {"./www/users", "./www/index.html", "./public/a.txt", "./public/secret"} |->
     CASE p = "./www/users" -> "users-file"
       [] p = "./www/index.html" -> "<h1>index</h1>"
       [] p = "./public/a.txt" -> "A"
       [] p = "./public/secret" -> "s3cret"]

\* regular files that exist and cannot be opened for reading
FsUnreadable == {"./public/secret"}

\* std::filesystem::path::operator/ : an absolute right-hand side replaces
\* the left one; otherwise a separator is added unless one is there
PathJoin(dir, rel) ==
  IF StartsWith(rel, "/") /\ rel # "" THEN rel
  ELSE IF dir = "" \/ CharAt(dir, Len(dir)) = "/" THEN dir \o rel
  ELSE dir \o "/" \o rel

\* s.rfind(c): the last 1-based index of character c in s, 0 when none
RECURSIVE RFind(_, _, _)
RFind(s, c, i) ==
  IF i < 1 THEN 0 ELSE IF CharAt(s, i) = c THEN i ELSE RFind(s, c, i - 1)

MimeTypes ==
  [e \in {".html", ".htm", ".css", ".js", ".json", ".xml", ".txt", ".jpg", ".jpeg",
          ".png", ".gif", ".svg", ".ico", ".pdf", ".zip", ".mp3", ".mp4", ".woff",
          ".woff2", ".ttf", ".webp"} |->
     CASE e \in {".html", ".htm"} -> "text/html"
       [] e = ".css" -> "text/css"
       [] e = ".js" -> "application/javascript"
       [] e = ".json" -> "application/json"
       [] e = ".xml" -> "application/xml"
       [] e = ".txt" -> "text/plain"
       [] e \in {".jpg", ".jpeg"} -> "image/jpeg"
       [] e = ".png" -> "image/png"
       [] e = ".gif" -> "image/gif"
       [] e = ".svg" -> "image/svg+xml"
       [] e = ".ico" -> "image/x-icon"
       [] e = ".pdf" -> "application/pdf"
       [] e = ".zip" -> "application/zip"
       [] e = ".mp3" -> "audio/mpeg"
       [] e = ".mp4" -> "video/mp4"
       [] e = ".woff" -> "font/woff"
       [] e = ".woff2" -> "font/woff2"
       [] e = ".ttf" -> "font/ttf"
       [] e = ".webp" -> "image/webp"]

\* get_mime_type
get_mime_type(path) ==
  With(SubstrFrom(path, RFind(path, "/", Len(path)) + 1), LAMBDA filename :
    With(RFind(filename, ".", Len(filename)), LAMBDA dot :
      With(IF dot <= 1 THEN "" ELSE ToLower(SubstrFrom(filename, dot)), LAMBDA ext :
        IF ext \in DOMAIN MimeTypes THEN MimeTypes[ext]
        ELSE "application/octet-stream")))

\* fs::path(directory) / relative_path, with index.html when it is a directory
StaticFilePath(directory, relative_path) ==
  With(PathJoin(directory, relative_path), LAMBDA joined :
    IF joined \in FsDirs THEN PathJoin(joined, "index.html") ELSE joined)

\* the loop body without the test for ".." in the remainder
StaticUnderUnchecked(prefix, directory, path) ==
  With(StaticFilePath(directory, SubstrFrom(path, Len(prefix) + 1)), LAMBDA file_path :
    IF file_path \notin DOMAIN FsFiles
    THEN [resp |-> set_body(set_status(HttpResponse(200), 404), "Not Found"),
          fs |-> << file_path >>]
    ELSE [resp |-> set_body(set_header(set_status(HttpResponse(200), 200),
                                       "Content-Type", get_mime_type(file_path)),
                            FsFiles[file_path]),
          fs |-> << file_path >>])

\* the body of the loop of handle_static_file for the first matching prefix;
\* fs lists the paths the file system was asked about
StaticUnder(prefix, directory, path) ==
  With(SubstrFrom(path, Len(prefix) + 1), LAMBDA relative_path :
    IF Contains(relative_path, "..")
    THEN [resp |-> set_body(set_status(HttpResponse(200), 403), "Forbidden"),
          fs |-> << >>]
    ELSE With(StaticFilePath(directory, relative_path), LAMBDA file_path :
      IF file_path \notin DOMAIN FsFiles
      THEN [resp |-> set_body(set_status(HttpResponse(200), 404), "Not Found"),
            fs |-> << file_path >>]
      ELSE IF file_path \in FsUnreadable
      THEN [resp |-> set_body(set_status(HttpResponse(200), 500),
                              "Internal Server Error"),
            fs |-> << file_path >>]
      ELSE [resp |-> set_body(set_header(set_status(HttpResponse(200), 200),
                                         "Content-Type", get_mime_type(file_path)),
                              FsFiles[file_path]),
            fs |-> << file_path >>]))

\* HttpServer::handle_static_file: the prefixes are tried in map order and
\* the first one the path starts with decides
RECURSIVE StaticScan(_, _, _)
StaticScan(sr, ks, path) ==
  IF ks = << >>
  THEN [resp |-> set_body(set_status(HttpResponse(200), 404), "Not Found"), fs |-> << >>]
  ELSE IF StartsWith(path, Head(ks)) THEN StaticUnder(Head(ks), sr[Head(ks)], path)
  ELSE StaticScan(sr, Tail(ks), path)

\* the prefixes tried from the last key of the map to the first
RECURSIVE Reversed(_)
Reversed(ks) == IF ks = << >> THEN << >> ELSE Append(Reversed(Tail(ks)), Head(ks))

handle_static_fileLastKeyFirst(sr, req) ==
  StaticScan(sr, Reversed(SortedKeys(DOMAIN sr)), req.path)

handle_static_file(sr, req) == StaticScan(sr, SortedKeys(DOMAIN sr), req.path)

-----------------------------------------------------------------------------
(* HttpServer::handle_client: parsing and dispatch.                        *)

\* the middleware loop without its break: a false is remembered and the
\* middlewares after it are called all the same
RECURSIVE RunMiddlewaresNoBreak(_, _, _, _, _)
RunMiddlewaresNoBreak(mws, i, req, res, log) ==
  IF i > Len(mws) THEN [kind |-> "continue", res |-> res, exc |-> NoExc, log |-> log]
  ELSE With(MiddlewareCall(mws[i], req, res), LAMBDA c :
         With(Append(log, Event("middleware", mws[i], ToString(i))), LAMBDA l :
           IF c.kind = "throw"
           THEN [kind |-> "throw", res |-> res, exc |-> c.exc, log |-> l]
           ELSE With(RunMiddlewaresNoBreak(mws, i + 1, req, c.res, l), LAMBDA r :
                  IF ~c.ret /\ r.kind = "continue" THEN [r EXCEPT !.kind = "stop"]
                  ELSE r)))

\* the middleware loop: each middleware in order until one returns false
RECURSIVE RunMiddlewares(_, _, _, _, _)
RunMiddlewares(mws, i, req, res, log) ==
  IF i > Len(mws) THEN [kind |-> "continue", res |-> res, exc |-> NoExc, log |-> log]
  ELSE With(MiddlewareCall(mws[i], req, res), LAMBDA c :
         With(Append(log, Event("middleware", mws[i], ToString(i))), LAMBDA l :
           IF c.kind = "throw"
           THEN [kind |-> "throw", res |-> res, exc |-> c.exc, log |-> l]
           ELSE IF ~c.ret
           THEN [kind |-> "stop", res |-> c.res, exc |-> NoExc, log |-> l]
           ELSE RunMiddlewares(mws, i + 1, req, c.res, l)))

NotFoundKey == "GET /404"

NotFoundHtml == "<html><body><h1>404 Not Found</h1></body></html>"

\* the 404 fallback that never looks for a handler under "GET /404"
NotFoundBuiltInOnly(rt, nf, eh, req, st, log) ==
  [kind |-> "respond", response |-> set_html(set_status(st, 404), NotFoundHtml),
   exc |-> NoExc, log |-> log]

\* the custom 404 handler, or the built-in page when none is registered
NotFound(rt, nf, eh, req, st, log) ==
  IF NotFoundKey \in DOMAIN rt
  THEN With(Invoke(rt[NotFoundKey], req, nf, eh), LAMBDA c :
         With(Append(log, Event("not_found", NotFoundKey, "")) \o c.log, LAMBDA l :
           IF c.out.kind = "return"
           THEN [kind |-> "respond", response |-> c.out.resp, exc |-> NoExc, log |-> l]
           ELSE [kind |-> "throw", response |-> st, exc |-> c.out.exc, log |-> l]))
  ELSE [kind |-> "respond", response |-> set_html(set_status(st, 404), NotFoundHtml),
        exc |-> NoExc, log |-> log]

\* the else-branch with the 404 fallback taken for every static response
\* that is not a 200
FallbackUnlessOk(rt, sr, nf, eh, req, log) ==
  With(handle_static_file(sr, req), LAMBDA st :
    With(Append(log, Event("static", req.path, "")), LAMBDA l :
      IF st.resp.status_code # 200 /\ DOMAIN rt # {}
      THEN NotFound(rt, nf, eh, req, st.resp, l)
      ELSE [kind |-> "respond", response |-> st.resp, exc |-> NoExc, log |-> l]))

\* the else-branch of the route lookup: static files, then the 404 fallback
Fallback(rt, sr, nf, eh, req, log) ==
  With(handle_static_file(sr, req), LAMBDA st :
    With(Append(log, Event("static", req.path, "")), LAMBDA l :
      IF st.resp.status_code = 404 /\ DOMAIN rt # {}
      THEN NotFound(rt, nf, eh, req, st.resp, l)
      ELSE [kind |-> "respond", response |-> st.resp, exc |-> NoExc, log |-> l]))

\* Routing with the lookup key built from the request target as sent, query
\* string included
RoutingOnFullTarget(rt, sr, nf, eh, req, log) ==
  With(req.method \o " " \o req.path
         \o (IF req.query # "" THEN "?" \o req.query ELSE ""), LAMBDA route_key :
    IF route_key \in DOMAIN rt
    THEN With(Invoke(rt[route_key], req, nf, eh), LAMBDA c :
           With(Append(log, Event("route", route_key, "")) \o c.log, LAMBDA l :
             IF c.out.kind = "return"
             THEN [kind |-> "respond", response |-> c.out.resp, exc |-> NoExc,
                   log |-> l]
             ELSE [kind |-> "throw", response |-> HttpResponse(200),
                   exc |-> c.out.exc, log |-> l]))
    ELSE Fallback(rt, sr, nf, eh, req, log))

\* the route lookup and what follows it, once the middlewares let it through
Routing(rt, sr, nf, eh, req, log) ==
  With(req.method \o " " \o req.path, LAMBDA route_key :
    IF route_key \in DOMAIN rt
    THEN With(Invoke(rt[route_key], req, nf, eh), LAMBDA c :
           With(Append(log, Event("route", route_key, "")) \o c.log, LAMBDA l :
             IF c.out.kind = "return"
             THEN [kind |-> "respond", response |-> c.out.resp, exc |-> NoExc,
                   log |-> l]
             ELSE [kind |-> "throw", response |-> HttpResponse(200),
                   exc |-> c.out.exc, log |-> l]))
    ELSE Fallback(rt, sr, nf, eh, req, log))

\* DispatchRequest without the if(should_continue) around the routing
DispatchRequestIgnoringStop(rt, mws, sr, nf, eh, request) ==
  With(RunMiddlewares(mws, 1, request, HttpResponse(200), << >>), LAMBDA m :
    IF m.kind = "throw"
    THEN [kind |-> "throw", response |-> m.res, exc |-> m.exc, log |-> m.log]
    ELSE Routing(rt, sr, nf, eh, request, m.log))

\* handle_client from the parsed request to the response that is to be sent
DispatchRequest(rt, mws, sr, nf, eh, request) ==
  With(RunMiddlewares(mws, 1, request, HttpResponse(200), << >>), LAMBDA m :
    CASE m.kind = "throw" ->
           [kind |-> "throw", response |-> m.res, exc |-> m.exc, log |-> m.log]
      [] m.kind = "stop" ->
           [kind |-> "respond", response |-> m.res, exc |-> NoExc, log |-> m.log]
      [] m.kind = "continue" -> Routing(rt, sr, nf, eh, request, m.log))

\* std::stoull on the trimmed Content-Length text: leading white space, an
\* optional sign, then digits; no digit at all throws std::invalid_argument
Stoull(s) ==
  With(FirstNotOf(s, Space, 1), LAMBDA f :
    With(IF f = 0 THEN "" ELSE SubstrFrom(s, f), LAMBDA a :
      With(IF a # "" /\ CharAt(a, 1) \in {"+", "-"} THEN SubstrFrom(a, 2) ELSE a,
           LAMBDA d :
             IF d = "" \/ ~IsDigit(CharAt(d, 1))
             THEN [ok |-> FALSE, value |-> 0]
             ELSE [ok |-> TRUE, value |-> DigitsToNat(d, 1, 0)])))

\* the Content-Length scan of handle_client on the header block
ContentLengthOf(raw) ==
  With(Find(raw, "Content-Length:"), LAMBDA content_length_pos :
    IF content_length_pos = 0 THEN [ok |-> TRUE, value |-> 0]
    ELSE With(FindFrom(raw, "\r\n", content_length_pos + 15), LAMBDA end :
           Stoull(TrimValue(IF end = 0 THEN SubstrFrom(raw, content_length_pos + 15)
                            ELSE SubSeq(raw, content_length_pos + 15, end - 1)))))

-----------------------------------------------------------------------------
(* Construction and registration.                                          *)

\* HttpServer::route (and get/post/put/del/patch, which call it)
route(rt, method, path, handler) == MapSet(rt, method \o " " \o path, handler)

\* HttpServer::HttpServer: empty tables, running_(false)
HttpServerInit ==
  /\ routes_ = EmptyRoutes
  /\ middlewares_ = << >>
  /\ static_routes_ = EmptyMap
  /\ running_ = FALSE
  /\ listener = "open"

\* RESTServer::RESTServer, which runs setup_error_handlers: on_not_found
\* stores the handler and registers GET /404, on_error stores the callback
RESTServerInit ==
  /\ routes_ = route(EmptyRoutes, "GET", "/404", Handler("not_found", "", "", ""))
  /\ middlewares_ = << >>
  /\ static_routes_ = EmptyMap
  /\ running_ = FALSE
  /\ listener = "open"

\* no library call made yet
NoCall == [op |-> "", arg |-> "", before |-> HttpResponse(200), out |-> ""]

\* the application's threads that call start(), one call each
Starters == {"start1", "start2"}

\* the application's threads that call stop(), one call each; the second one
\* makes its call from ~HttpServer
Stoppers == {"stop", "destructor"}

Threads0 ==
  /\ startPc = [t \in Starters |-> "idle"]
  /\ stopPc = [t \in Stoppers |-> "idle"]
  /\ stopAfterStart = FALSE
  /\ regs = 0
  /\ conns = << >>
  /\ terminated = FALSE
  /\ obj = HttpResponse(200)
  /\ call = NoCall
  /\ ncalls = 0

Init ==
  /\ \/ kind = "http" /\ HttpServerInit
        /\ not_found_handler_ = "" /\ error_handler_ = ""
     \/ kind = "rest" /\ RESTServerInit
        /\ not_found_handler_ = "default_not_found" /\ error_handler_ = "default_error"
  /\ Threads0

\* start() has been invoked
Started == \E t \in Starters : startPc[t] # "idle"

\* a registration call can be made; nothing in route, use_middleware or
\* serve_static looks at running_
CanRegister == regs < MaxRegs /\ ~terminated

DirectRoutes == { << "GET", "/ping", "pong" >>, << "GET", "/boom", "boom" >>,
                  << "GET", "/crash", "crash" >> }

\* server.route(method, path, handler) / server.get(path, handler) ...
Route(method, path, h) ==
  /\ CanRegister
  /\ routes_' = route(routes_, method, path, Handler("direct", "user", "", h))
  /\ regs' = regs + 1
  /\ UNCHANGED << harness, kind, middlewares_, static_routes_, not_found_handler_,
                  error_handler_, lifecycle, conns, terminated >>

\* HttpServer::use_middleware
UseMiddleware(m) ==
  /\ CanRegister
  /\ middlewares_' = Append(middlewares_, m)
  /\ regs' = regs + 1
  /\ UNCHANGED << harness, kind, routes_, static_routes_, not_found_handler_,
                  error_handler_, lifecycle, conns, terminated >>

\* RESTServer::enable_cors, which calls use_middleware with its lambda
EnableCors ==
  /\ CanRegister
  /\ kind = "rest"
  /\ middlewares_' = Append(middlewares_, "cors")
  /\ regs' = regs + 1
  /\ UNCHANGED << harness, kind, routes_, static_routes_, not_found_handler_,
                  error_handler_, lifecycle, conns, terminated >>

StaticDirs == { << "/", "./www" >>, << "/static/", "./public" >> }

\* HttpServer::serve_static
ServeStatic(url_prefix, directory) ==
  /\ CanRegister
  /\ static_routes_' = MapSet(static_routes_, url_prefix, directory)
  /\ regs' = regs + 1
  /\ UNCHANGED << harness, kind, routes_, middlewares_, not_found_handler_,
                  error_handler_, lifecycle, conns, terminated >>

RestRoutes == { << "GET", "/x", "missing" >>, << "GET", "/x", "dup" >>,
                << "GET", "/x", "boom" >>, << "GET", "/x", "crash" >> }

\* RESTServer::get/post/put/del/patch
RestRoute(method, path, h) ==
  /\ CanRegister
  /\ kind = "rest"
  /\ routes_' = route(routes_, method, path, Handler("json", "user", "", h))
  /\ regs' = regs + 1
  /\ UNCHANGED << harness, kind, middlewares_, static_routes_, not_found_handler_,
                  error_handler_, lifecycle, conns, terminated >>

ResourceFns == << "list", "create", "retrieve", "update", "partial_update", "destroy" >>

\* the method and path RESTServer::resource registers each handler under
ResourceMethod(fn) ==
  CASE fn = "list" -> "GET"
    [] fn = "create" -> "POST"
    [] fn = "retrieve" -> "GET"
    [] fn = "update" -> "PUT"
    [] fn = "partial_update" -> "PATCH"
    [] fn = "destroy" -> "DELETE"

ResourcePath(name, fn) ==
  LET base_path == "/" \o name
      id_path == base_path \o "/:id"
  IN IF fn \in {"list", "create"} THEN base_path ELSE id_path

\* resource registering all six routes whether or not a handler is supplied
RECURSIVE resourceRegisteringAll(_, _, _, _)
resourceRegisteringAll(rt, name, handlers, i) ==
  IF i > Len(ResourceFns) THEN rt
  ELSE resourceRegisteringAll(
         route(rt, ResourceMethod(ResourceFns[i]), ResourcePath(name, ResourceFns[i]),
               Handler("json", ResourceFns[i], name,
                       IF ResourceFns[i] \in DOMAIN handlers
                       THEN handlers[ResourceFns[i]] ELSE "pong")),
         name, handlers, i + 1)

\* RESTServer::resource: one registration per handler that is supplied;
\* handlers maps the supplied ones to the user's callbacks
RECURSIVE resource(_, _, _, _)
resource(rt, name, handlers, i) ==
  IF i > Len(ResourceFns) THEN rt
  ELSE LET fn == ResourceFns[i]
       IN resource(IF fn \in DOMAIN handlers
                   THEN route(rt, ResourceMethod(fn), ResourcePath(name, fn),
                              Handler("json", fn, name, handlers[fn]))
                   ELSE rt,
                   name, handlers, i + 1)

\* the ResourceHandlers structs the model registers
ResourceHandlers ==
  { [f \in {"retrieve"} |-> "show"],
    [f \in {"list", "create"} |-> "pong"],
    [f \in {"retrieve", "update", "partial_update", "destroy"} |->
       IF f = "retrieve" THEN "missing" ELSE "show"],
    [f \in {"list", "create", "update", "partial_update", "destroy"} |->
       IF f \in {"list", "create"} THEN "boom" ELSE "show"] }

Resource(name, handlers) ==
  /\ CanRegister
  /\ kind = "rest"
  /\ routes_' = resource(routes_, name, handlers, 1)
  /\ regs' = regs + 1
  /\ UNCHANGED << harness, kind, middlewares_, static_routes_, not_found_handler_,
                  error_handler_, lifecycle, conns, terminated >>

-----------------------------------------------------------------------------
(* HttpServer::start and HttpServer::stop.                                 *)

\* start() is called: if(running_) throw std::runtime_error(...)
StartCheck(t) ==
  /\ startPc[t] = "idle" /\ ~terminated
  /\ startPc' = [startPc EXCEPT ![t] = IF running_ THEN "threw" ELSE "set"]
  /\ UNCHANGED << harness, config, running_, listener, stopPc, stopAfterStart, conns, terminated >>

\* running_ = true
StartSet(t) ==
  /\ startPc[t] = "set" /\ ~terminated
  /\ running_' = TRUE
  /\ startPc' = [startPc EXCEPT ![t] = "loop"]
  /\ UNCHANGED << harness, config, listener, stopPc, stopAfterStart, conns, terminated >>

\* while(running_)
StartLoop(t) ==
  /\ startPc[t] = "loop" /\ ~terminated
  /\ startPc' = [startPc EXCEPT ![t] = IF running_ THEN "accept" ELSE "returned"]
  /\ UNCHANGED << harness, config, running_, listener, stopPc, stopAfterStart, conns, terminated >>

\* the handler thread's state when std::thread(&handle_client, ...) starts it;
\* wire is everything the client sends on the connection
NewConn(wire) ==
  [wire |-> wire, rpos |-> 1, pc |-> "recvuntil", raw_request |-> "",
   request |-> parse_request(""),
   content_length |-> 0, response |-> HttpResponse(200), sent |-> << >>,
   closes |-> 0, log |-> << >>, caught |-> NoExc]

\* server_->accept() returns a client; a detached thread is started for it
Accept(t, wire) ==
  /\ startPc[t] = "accept" /\ ~terminated
  /\ listener = "open"
  /\ Len(conns) < MaxConns
  /\ conns' = Append(conns, NewConn(wire))
  /\ startPc' = [startPc EXCEPT ![t] = "loop"]
  /\ UNCHANGED << harness, config, running_, listener, stopPc, stopAfterStart, terminated >>

\* server_->accept() on the closed listener throws; the catch block logs
\* when running_ and the loop goes on
AcceptFail(t) ==
  /\ startPc[t] = "accept" /\ ~terminated
  /\ listener = "closed"
  /\ startPc' = [startPc EXCEPT ![t] = "loop"]
  /\ UNCHANGED << harness, config, running_, listener, stopPc, stopAfterStart, conns, terminated >>

\* stop() is called: if(running_)
StopCheck(t) ==
  /\ stopPc[t] = "idle" /\ ~terminated
  /\ stopPc' = [stopPc EXCEPT ![t] = IF running_ THEN "flip" ELSE "returned"]
  /\ stopAfterStart' = Started
  /\ UNCHANGED << harness, config, running_, listener, startPc, conns, terminated >>

\* running_ = false
StopFlip(t) ==
  /\ stopPc[t] = "flip" /\ ~terminated
  /\ running_' = FALSE
  /\ stopPc' = [stopPc EXCEPT ![t] = "close"]
  /\ UNCHANGED << harness, config, listener, startPc, stopAfterStart, conns, terminated >>

\* server_->close()
StopClose(t) ==
  /\ stopPc[t] = "close" /\ ~terminated
  /\ listener' = "closed"
  /\ stopPc' = [stopPc EXCEPT ![t] = "returned"]
  /\ UNCHANGED << harness, config, running_, startPc, stopAfterStart, conns, terminated >>

-----------------------------------------------------------------------------
(* HttpServer::handle_client, one thread per connection.                   *)

\* the connection after recvuntil returned raw and the Content-Length scan
\* was made: std::stoull may throw into the catch block
AfterHeaders(k, raw, next, cl) ==
  IF cl.ok
  THEN [k EXCEPT !.raw_request = raw, !.rpos = next, !.content_length = cl.value,
                 !.pc = IF cl.value > 0 THEN "recv" ELSE "dispatch"]
  ELSE [k EXCEPT !.raw_request = raw, !.rpos = next, !.pc = "done",
                 !.caught = StdExc("stoull")]

\* client->recvuntil("\r\n\r\n") returns the header block; then the
\* Content-Length scan
RecvUntil(c) ==
  /\ ~terminated
  /\ conns[c].pc = "recvuntil"
  /\ \E d \in { FindFrom(conns[c].wire, "\r\n\r\n", conns[c].rpos) } :
       /\ d # 0
       /\ \E raw \in { SubSeq(conns[c].wire, conns[c].rpos, d + 3) } :
            conns' = [conns EXCEPT ![c] =
                        AfterHeaders(conns[c], raw, d + 4, ContentLengthOf(raw))]
  /\ UNCHANGED << harness, config, lifecycle, terminated >>

\* Remote::recv(size) with left bytes still to come on the connection: n bytes
\* may be returned when n is at most size, at least one while bytes are
\* left, none at the end of the stream
RecvReturns(size, left, n) ==
  /\ n <= Min(size, left)
  /\ left > 0 => n >= 1

\* client->recv(content_length), appended to raw_request
Recv(c, n) ==
  /\ ~terminated
  /\ conns[c].pc = "recv"
  /\ \E k \in { conns[c] } :
       /\ RecvReturns(k.content_length, Len(k.wire) - k.rpos + 1, n)
       /\ conns' = [conns EXCEPT ![c] =
            [k EXCEPT !.raw_request = k.raw_request \o SubSeq(k.wire, k.rpos, k.rpos + n - 1),
                      !.rpos = k.rpos + n, !.pc = "dispatch"]]
  /\ UNCHANGED << harness, config, lifecycle, terminated >>

\* what the catch clause of handle_client catches: std::exception and the
\* types derived from it
CaughtByHandler(exc) == exc.type \in {"std", "rest"}

\* the connection after dispatch: a response to send, an exception logged
\* by the catch block, or an exception that leaves the thread function
AfterDispatch(k, request, d) ==
  CASE d.kind = "respond" ->
         [k EXCEPT !.request = request, !.response = d.response, !.log = d.log,
                   !.pc = "send"]
    [] d.kind = "throw" /\ CaughtByHandler(d.exc) ->
         [k EXCEPT !.request = request, !.response = d.response, !.log = d.log,
                   !.pc = "done", !.caught = d.exc]
    [] OTHER ->
         [k EXCEPT !.request = request, !.response = d.response, !.log = d.log,
                   !.pc = "dead", !.caught = d.exc]

\* the route lookup written routes_[route_key] in place of
\* routes_.find(route_key): a key that is not in the table is inserted
DispatchInsertingKey(c) ==
  /\ ~terminated
  /\ conns[c].pc = "dispatch"
  /\ \E request \in { parse_request(conns[c].raw_request) } :
       \E d \in { DispatchRequest(routes_, middlewares_, static_routes_,
                                  not_found_handler_, error_handler_, request) } :
         /\ conns' = [conns EXCEPT ![c] = AfterDispatch(conns[c], request, d)]
         /\ terminated' = (d.kind = "throw" /\ ~CaughtByHandler(d.exc))
         /\ routes_' = IF request.method \o " " \o request.path \in DOMAIN routes_
                       THEN routes_
                       ELSE MapSet(routes_, request.method \o " " \o request.path, NoHandler)
  /\ UNCHANGED << harness, kind, middlewares_, static_routes_, not_found_handler_,
                  error_handler_, regs, lifecycle >>

\* parse_request, the middlewares, the routing.  A std::exception reaches
\* the catch block of handle_client, which logs it and returns; any other
\* thrown value leaves the thread function and std::terminate is called
Dispatch(c) ==
  /\ ~terminated
  /\ conns[c].pc = "dispatch"
  /\ \E request \in { parse_request(conns[c].raw_request) } :
       \E d \in { DispatchRequest(routes_, middlewares_, static_routes_,
                                  not_found_handler_, error_handler_, request) } :
         /\ conns' = [conns EXCEPT ![c] = AfterDispatch(conns[c], request, d)]
         /\ terminated' = (d.kind = "throw" /\ ~CaughtByHandler(d.exc))
  /\ UNCHANGED << harness, config, lifecycle >>

\* a keep-alive handler: after the send it reads the next request when the
\* client has sent more bytes
SendThenReadNext(c) ==
  /\ ~terminated
  /\ conns[c].pc = "send"
  /\ conns' = [conns EXCEPT ![c] =
       [@ EXCEPT !.sent = Append(@, to_string(conns[c].response)),
                 !.pc = IF conns[c].rpos <= Len(conns[c].wire) THEN "recvuntil" ELSE "close"]]
  /\ UNCHANGED << harness, config, lifecycle, terminated >>

\* client->send(response.to_string())
Send(c) ==
  /\ ~terminated
  /\ conns[c].pc = "send"
  /\ conns' = [conns EXCEPT ![c] =
       [@ EXCEPT !.sent = Append(@, to_string(conns[c].response)), !.pc = "close"]]
  /\ UNCHANGED << harness, config, lifecycle, terminated >>

\* client->close()
Close(c) ==
  /\ ~terminated
  /\ conns[c].pc = "close"
  /\ conns' = [conns EXCEPT ![c] = [@ EXCEPT !.closes = @ + 1, !.pc = "done"]]
  /\ UNCHANGED << harness, config, lifecycle, terminated >>

HandleClient(c) ==
  \/ RecvUntil(c)
  \/ \E n \in 0..2 : Recv(c, n)
  \/ Dispatch(c)
  \/ Send(c)
  \/ Close(c)

-----------------------------------------------------------------------------
(* Specifications.                                                         *)

CRLF == "\r\n"

Req(method, target, headers, body) ==
  method \o " " \o target \o " HTTP/1.1" \o CRLF \o headers \o CRLF \o body

\* what the clients of the model send
Requests ==
  { Req("GET", "/ping?x=1", "Host: h" \o CRLF, ""),
    Req("GET", "/boom", "", ""),
    Req("GET", "/crash", "", ""),
    Req("GET", "/x", "", ""),
    Req("GET", "/users/42", "", ""),
    Req("GET", "/users/:id", "", ""),
    Req("POST", "/users", "Content-Length: 2" \o CRLF, "hi"),
    Req("DELETE", "/users/:id", "", ""),
    Req("GET", "/404", "", ""),
    Req("GET", "/static/a.txt", "", ""),
    Req("GET", "/static/secret", "", ""),
    Req("GET", "/static/../x", "", ""),
    Req("POST", "/users", "Content-Length: abc" \o CRLF, ""),
    Req("POST", "/users", "Content-Length: 2x" \o CRLF, "hi"),
    Req("POST", "/users", "content-length: 2" \o CRLF, "hi"),
    Req("GET", "/ping", "X-Content-Length: 2" \o CRLF, ""),
    Req("GET", "/ping", "", "") \o Req("GET", "/boom", "", ""),
    "GET /ping" \o CRLF \o CRLF }

Register ==
  \/ \E r \in DirectRoutes : Route(r[1], r[2], r[3])
  \/ \E m \in UserMiddlewares : UseMiddleware(m)
  \/ EnableCors
  \/ \E s \in StaticDirs : ServeStatic(s[1], s[2])
  \/ \E r \in RestRoutes : RestRoute(r[1], r[2], r[3])
  \/ \E h \in ResourceHandlers : Resource("users", h)

\* a server that is configured, started and then serves one connection; the
\* tables are filled before start() is called (the documented precondition)
Next ==
  \/ ~Started /\ Register
  \/ StartCheck("start1")
  \/ StartSet("start1")
  \/ StartLoop("start1")
  \/ \E w \in Requests : conns = << >> /\ Accept("start1", w)
  \/ \E c \in DOMAIN conns : HandleClient(c)

Spec == Init /\ [][Next]_vars

-----------------------------------------------------------------------------
(* A running server: one thread in start(), one thread calling stop(),     *)
(* one detached thread per accepted connection.                            *)

\* an HttpServer with two routes, as the application configured it
ServerInit ==
  /\ kind = "http"
  /\ routes_ = route(route(EmptyRoutes, "GET", "/ping", Handler("direct", "user", "", "pong")),
                     "POST", "/crash", Handler("direct", "user", "", "crash"))
  /\ middlewares_ = << >>
  /\ static_routes_ = EmptyMap
  /\ not_found_handler_ = ""
  /\ error_handler_ = ""
  /\ running_ = FALSE
  /\ listener = "open"
  /\ Threads0

\* what the clients of the running server send
ServerRequests ==
  { Req("GET", "/ping", "", ""),
    Req("GET", "/late", "", ""),
    Req("POST", "/crash", "Content-Length: 2" \o CRLF, "hi"),
    "GET /ping HTTP/1.1" \o CRLF }

ServerNext ==
  \/ StartCheck("start1")
  \/ StartSet("start1")
  \/ StartLoop("start1")
  \/ \E w \in ServerRequests : Accept("start1", w)
  \/ AcceptFail("start1")
  \/ StopCheck("stop")
  \/ StopFlip("stop")
  \/ StopClose("stop")
  \/ \E c \in DOMAIN conns : HandleClient(c)

\* every thread that can run is scheduled again: the thread inside start(),
\* the thread inside stop(), each connection's thread.  Nothing obliges the
\* application to call start() or stop(), or a client to connect
ServerFairness ==
  /\ WF_vars(StartSet("start1") \/ StartLoop("start1") \/ AcceptFail("start1"))
  /\ WF_vars(StopFlip("stop") \/ StopClose("stop"))
  /\ \A c \in 1..MaxConns : WF_vars(c \in DOMAIN conns /\ HandleClient(c))

ServerSpec == ServerInit /\ [][ServerNext]_vars /\ ServerFairness

-----------------------------------------------------------------------------
(* The application's direct use of the library: the calls it makes on an   *)
(* HttpResponse it is building, and the parser and the static resolver     *)
(* applied to inputs drawn from small sets.                                *)

\* the state of the server, which these calls leave alone
server == << config, lifecycle, conns, terminated >>

\* a call that changes the response object
Apply(op, arg, result) ==
  /\ ncalls < MaxCalls
  /\ obj' = result
  /\ call' = [op |-> op, arg |-> arg, before |-> obj, out |-> ""]
  /\ ncalls' = ncalls + 1
  /\ UNCHANGED server

\* a call that computes a value and changes nothing; the application makes
\* one, before it starts on the response
Computed == call.op = "" /\ UNCHANGED << obj, ncalls, server >>

Bodies == {"", "hello", "0123456789"}

SetBody(content) == Apply("set_body", content, set_body(obj, content))

SetJson(json) == Apply("set_json", json, set_json(obj, json))

SetHtml(html) == Apply("set_html", html, set_html(obj, html))

StatusCodes == {204, 404}

SetStatus(code) == Apply("set_status", ToString(code), set_status(obj, code))

HeaderPairs == { << "Content-Length", "99" >>, << "X-Tag", "1" >> }

SetHeader(name, value) == Apply("set_header", name, set_header(obj, name, value))

CookieOptionSets ==
  { CookieOptions,
    [max_age |-> 60, path |-> "", domain |-> "example.org", secure |-> TRUE,
     http_only |-> FALSE, same_site |-> ""] }

SetCookie(name, value, options) ==
  Apply("set_cookie", name, set_cookie(obj, name, value, options))

Redirects == { << "/login", 302 >>, << "/moved", 301 >> }

Redirect(location, code) == Apply("redirect", location, redirect(obj, location, code))

SetterOps ==
  { "set_body", "set_json", "set_html", "set_status", "set_header", "set_cookie",
    "redirect" }

\* response.to_string() on the response as the calls so far have left it
ToStringCall ==
  /\ call.op \in SetterOps \cup {""}
  /\ call' = [op |-> "to_string", arg |-> "", before |-> obj, out |-> to_string(obj)]
  /\ UNCHANGED << obj, ncalls, server >>

\* header lines whose names differ in case only, with padded values
HeaderLineSet ==
  { n \o ":" \o v \o CRLF :
      n \in {"X-Tag", "x-tag", "X-TAG", "Host"}, v \in {"a", " b\t", " c d "} }

\* the values a Cookie header is given
CookieValues ==
  { "x=1; y=2", "x=1;y=2", "x=1 ;\ty=2", "x=1; flag; y=2", "x=1; x=2", "a=b=c",
    "x = 1", "=v", "", ";", "x=1;", "flag", " ; x=1" }

\* raw requests with a Cookie header in several casings, with two of them, and
\* with a cookie text under another header name
CookieRequests ==
  { "GET /p HTTP/1.1" \o CRLF \o n \o ": " \o v \o CRLF \o CRLF :
      n \in {"Cookie", "cookie", "X-Cookie"}, v \in CookieValues }
  \cup { "GET /p HTTP/1.1" \o CRLF \o "Cookie: x=1" \o CRLF \o n \o ": y=2; z=3"
           \o CRLF \o CRLF : n \in {"COOKIE", "Host"} }

\* the raw requests handed to parse_request: up to two header lines
ApiRequests ==
  { "GET /p HTTP/1.1" \o CRLF \o CRLF }
  \cup CookieRequests
  \cup { "GET /p HTTP/1.1" \o CRLF \o h \o CRLF : h \in HeaderLineSet }
  \cup { "GET /p HTTP/1.1" \o CRLF \o h1 \o h2 \o CRLF :
           h1 \in HeaderLineSet, h2 \in HeaderLineSet }

ParseRequest(raw_request) ==
  /\ Computed
  /\ call' = [op |-> "parse_request", arg |-> raw_request, before |-> obj,
              out |-> parse_request(raw_request)]

QueryStrings ==
  { "", "a=1&b=2&flag", "a=1&a=2", "a=1&a", "flag&flag=x", "a=b=c", "=v", "a=",
    "a=1&", "&a=1", "a=1&&b=2", "k=a+b", "k=%41%42", "x%3Dy=1", "a+b", "a+b=1&a%20b=2" }

ParseQueryString(query) ==
  /\ Computed
  /\ call' = [op |-> "parse_query_string", arg |-> query, before |-> obj,
              out |-> parse_query_string(query)]

\* the tables serve_static can have built
StaticTables ==
  { MapSet(EmptyMap, "/static", "./public"),
    MapSet(EmptyMap, "/", "./www"),
    MapSet(MapSet(EmptyMap, "/static", "./public"), "/static/js", "./www"),
    MapSet(MapSet(EmptyMap, "/", "./www"), "/static/", "./public") }

StaticPaths ==
  { "/static/../../etc/passwd", "/static/a.txt", "/static/js/../secret",
    "/static/js/a..b", "/..", "/index.html", "/static/secret", "/static..",
    "/other/x" }

HandleStaticFile(path) ==
  /\ Computed
  /\ call' = [op |-> "handle_static_file", arg |-> path, before |-> obj,
              out |-> handle_static_file(static_routes_,
                                         parse_request(Req("GET", path, "", "")))]

ApiInit ==
  /\ kind = "http"
  /\ routes_ = EmptyRoutes
  /\ middlewares_ = << >>
  /\ static_routes_ \in StaticTables
  /\ not_found_handler_ = ""
  /\ error_handler_ = ""
  /\ running_ = FALSE
  /\ listener = "open"
  /\ Threads0

ApiNext ==
  \/ \E c \in Bodies : SetBody(c)
  \/ \E c \in Bodies : SetJson(c)
  \/ \E c \in Bodies : SetHtml(c)
  \/ \E code \in StatusCodes : SetStatus(code)
  \/ \E h \in HeaderPairs : SetHeader(h[1], h[2])
  \/ \E o \in CookieOptionSets : SetCookie("sid", "abc", o)
  \/ \E r \in Redirects : Redirect(r[1], r[2])
  \/ ToStringCall
  \/ \E raw \in ApiRequests : ParseRequest(raw)
  \/ \E q \in QueryStrings : ParseQueryString(q)
  \/ \E p \in StaticPaths : HandleStaticFile(p)

ApiSpec == ApiInit /\ [][ApiNext]_vars

-----------------------------------------------------------------------------
(* RESTClient: the headers and the URL it hands to its HttpClient, and     *)
(* what it makes of the response that comes back.                          *)

\* RESTClient::RESTClient: one trailing '/' of the base URL is dropped; no
\* authentication is configured and there are no default headers
RESTClient(base_url) ==
  [base_url_ |-> IF base_url # "" /\ CharAt(base_url, Len(base_url)) = "/"
                 THEN SubSeq(base_url, 1, Len(base_url) - 1) ELSE base_url,
   default_headers_ |-> EmptyMap, auth_type_ |-> "None", auth_token_ |-> "",
   auth_username_ |-> "", auth_password_ |-> "", api_key_ |-> "",
   api_key_header_ |-> ""]

set_auth_bearer(c, token) ==
  [c EXCEPT !.auth_token_ = token, !.auth_type_ = "Bearer"]

set_auth_basic(c, username, password) ==
  [c EXCEPT !.auth_username_ = username, !.auth_password_ = password,
            !.auth_type_ = "Basic"]

set_auth_api_key(c, key, header_name) ==
  [c EXCEPT !.api_key_ = key, !.api_key_header_ = header_name,
            !.auth_type_ = "ApiKey"]

\* RESTClient::set_header
RESTClient_set_header(c, name, value) ==
  [c EXCEPT !.default_headers_ = MapSet(c.default_headers_, name, value)]

\* the credentials given to set_auth_basic
Credentials == { << "bob", "pw" >> }

\* base64_encode of "user:password", for the credentials above
base64_encode(s) == IF s = "bob:pw" THEN "Ym9iOnB3" ELSE ""

\* headers[key] = value for every entry of additional
Overlay(headers, additional) ==
  [k \in DOMAIN headers \cup DOMAIN additional |->
     IF k \in DOMAIN additional THEN additional[k] ELSE headers[k]]

\* RESTClient::build_headers
build_headers(c, additional) ==
  Overlay(
    CASE c.auth_type_ = "Bearer" ->
           MapSet(c.default_headers_, "Authorization", "Bearer " \o c.auth_token_)
      [] c.auth_type_ = "Basic" ->
           MapSet(c.default_headers_, "Authorization",
                  "Basic " \o base64_encode(c.auth_username_ \o ":" \o c.auth_password_))
      [] c.auth_type_ = "ApiKey" ->
           MapSet(c.default_headers_, c.api_key_header_, c.api_key_)
      [] OTHER -> c.default_headers_,
    additional)

\* RESTClient::build_url
build_url(c, endpoint) ==
  IF endpoint = "" \/ CharAt(endpoint, 1) # "/"
  THEN c.base_url_ \o "/" \o endpoint
  ELSE c.base_url_ \o endpoint

\* HttpResponse::ok
ok(response) == response.status_code >= 200 /\ response.status_code < 300

\* the call made on client_ and what came of the response: the body
\* returned, or a RESTException thrown when the response is not ok()
Answer(fn, method, url, headers, body, response) ==
  [fn |-> fn, method |-> method, url |-> url, headers |-> headers, body |-> body,
   kind |-> IF ok(response) THEN "return" ELSE "throw",
   value |-> IF ok(response) THEN response.body ELSE "",
   exc |-> IF ok(response) THEN NoExc
           ELSE RESTException(response.status_code, response.status_message,
                              response.body)]

\* RESTClient::request_json
request_json(c, method, endpoint, json_body, headers, response) ==
  Answer("request", method, build_url(c, endpoint),
         MapSet(build_headers(c, headers), "Content-Type", "application/json"),
         json_body, response)

\* RESTClient::get
get(c, endpoint, headers, response) ==
  Answer("get", "GET", build_url(c, endpoint), build_headers(c, headers), "", response)

\* RESTClient::post
post(c, endpoint, json_body, headers, response) ==
  request_json(c, "POST", endpoint, json_body, headers, response)

\* RESTClient::put
put(c, endpoint, json_body, headers, response) ==
  request_json(c, "PUT", endpoint, json_body, headers, response)

\* RESTClient::patch
patch(c, endpoint, json_body, headers, response) ==
  request_json(c, "PATCH", endpoint, json_body, headers, response)

\* RESTClient::del
del(c, endpoint, headers, response) ==
  Answer("del", "DELETE", build_url(c, endpoint), build_headers(c, headers), "", response)

\* the endpoint of RESTClient::list: the parameters in key order, '&' between
RECURSIVE QueryOf(_, _)
QueryOf(query_params, ks) ==
  IF ks = << >> THEN ""
  ELSE ks[1] \o "=" \o query_params[ks[1]]
       \o (IF Len(ks) > 1 THEN "&" ELSE "") \o QueryOf(query_params, Tail(ks))

\* RESTClient::list
list(c, rsrc, query_params, headers, response) ==
  get(c, "/" \o rsrc
         \o (IF DOMAIN query_params # {}
             THEN "?" \o QueryOf(query_params, SortedKeys(DOMAIN query_params))
             ELSE ""),
      headers, response)

\* RESTClient::retrieve
retrieve(c, rsrc, id, headers, response) ==
  get(c, "/" \o rsrc \o "/" \o id, headers, response)

\* RESTClient::create
create(c, rsrc, json_body, headers, response) ==
  post(c, "/" \o rsrc, json_body, headers, response)

\* RESTClient::update
update(c, rsrc, id, json_body, headers, response) ==
  put(c, "/" \o rsrc \o "/" \o id, json_body, headers, response)

\* RESTClient::partial_update
partial_update(c, rsrc, id, json_body, headers, response) ==
  patch(c, "/" \o rsrc \o "/" \o id, json_body, headers, response)

\* RESTClient::destroy: the body that del returns is dropped
destroy(c, rsrc, id, headers, response) ==
  [del(c, "/" \o rsrc \o "/" \o id, headers, response) EXCEPT !.value = ""]

\* std::stoi: leading white space, an optional sign, then digits; no digit at
\* all throws std::invalid_argument
Stoi(s) ==
  With(FirstNotOf(s, Space, 1), LAMBDA f :
    With(IF f = 0 THEN "" ELSE SubstrFrom(s, f), LAMBDA a :
      With(IF a # "" /\ CharAt(a, 1) \in {"+", "-"} THEN SubstrFrom(a, 2) ELSE a,
           LAMBDA d :
             IF d = "" \/ ~IsDigit(CharAt(d, 1))
             THEN [ok |-> FALSE, value |-> 0]
             ELSE [ok |-> TRUE,
                   value |-> IF CharAt(a, 1) = "-" THEN 0 - DigitsToNat(d, 1, 0)
                             ELSE DigitsToNat(d, 1, 0)])))

\* the envelope of get_paginated; total is "unset" when no x-total-count
\* header came back
PaginatedResponse(data, page, per_page, total) ==
  [data |-> data, page |-> page, per_page |-> per_page, total |-> total]

\* RESTClient::get_paginated
get_paginated(c, endpoint, page, per_page, headers, response) ==
  With(Answer("get", "GET",
              build_url(c, endpoint \o (IF Find(endpoint, "?") # 0 THEN "&" ELSE "?")
                             \o "page=" \o ToString(page)
                             \o "&per_page=" \o ToString(per_page)),
              build_headers(c, headers), "", response),
       LAMBDA a :
         IF ~ok(response) THEN a
         ELSE IF "x-total-count" \notin DOMAIN response.headers
         THEN [a EXCEPT !.value = PaginatedResponse(response.body, page, per_page, "unset")]
         ELSE With(Stoi(response.headers["x-total-count"]), LAMBDA total :
                IF total.ok
                THEN [a EXCEPT !.value = PaginatedResponse(response.body, page,
                                                           per_page, total.value)]
                ELSE [a EXCEPT !.kind = "throw", !.value = "",
                               !.exc = StdExc("stoi")]))

-----------------------------------------------------------------------------
(* The application's use of a RESTClient: it configures the client, then   *)
(* makes a request that the server answers with some response.             *)

SetAuthBearer(token) == Apply("set_auth_bearer", token, set_auth_bearer(obj, token))

SetAuthBasic(username, password) ==
  Apply("set_auth_basic", username, set_auth_basic(obj, username, password))

SetAuthApiKey(key, header_name) ==
  Apply("set_auth_api_key", header_name, set_auth_api_key(obj, key, header_name))

DefaultHeaderPairs == { << "Authorization", "legacy" >>, << "Content-Type", "text/xml" >> }

SetDefaultHeader(name, value) ==
  Apply("set_header", name, RESTClient_set_header(obj, name, value))

\* the headers given at the call site
CallHeaders ==
  { EmptyMap,
    [k \in {"Accept"} |-> "application/json"],
    [k \in {"Authorization"} |-> "Bearer call"],
    [k \in {"Content-Type"} |-> "application/merge-patch+json"] }

\* a response as HttpClient hands it back (header names in lower case)
ClientResponse(code, message, headers, body) ==
  [status_code |-> code, status_message |-> message, headers |-> headers, body |-> body]

ClientResponses ==
  { ClientResponse(200, "OK", EmptyMap, "[1,2]"),
    ClientResponse(204, "No Content", EmptyMap, ""),
    ClientResponse(299, "Custom", EmptyMap, "x"),
    ClientResponse(199, "Early", EmptyMap, "y"),
    ClientResponse(300, "Multiple Choices", EmptyMap, "z"),
    ClientResponse(404, "Not Found", EmptyMap, "{\"error\":\"no such item\"}"),
    ClientResponse(200, "OK", [k \in {"x-total-count"} |-> "42"], "[1,2]"),
    ClientResponse(200, "OK", [k \in {"x-total-count"} |-> "12abc"], "[1,2]"),
    ClientResponse(200, "OK", [k \in {"x-total-count"} |-> "many"], "[1,2]") }

Endpoints == { "/items", "items?x=1" }

RequestOps ==
  { "get", "post", "put", "patch", "del", "get_paginated", "list", "retrieve",
    "create", "update", "partial_update", "destroy" }

\* a request leaves the client as it is; the application makes one
Requested == call.op \notin RequestOps /\ UNCHANGED << obj, ncalls, server >>

Get(endpoint, headers, response) ==
  /\ Requested
  /\ call' = [op |-> "get", before |-> obj,
              arg |-> [endpoint |-> endpoint, headers |-> headers, response |-> response],
              out |-> get(obj, endpoint, headers, response)]

Post(endpoint, headers, response) ==
  /\ Requested
  /\ call' = [op |-> "post", before |-> obj,
              arg |-> [endpoint |-> endpoint, headers |-> headers, response |-> response],
              out |-> post(obj, endpoint, "{}", headers, response)]

Put(endpoint, headers, response) ==
  /\ Requested
  /\ call' = [op |-> "put", before |-> obj,
              arg |-> [endpoint |-> endpoint, headers |-> headers, response |-> response],
              out |-> put(obj, endpoint, "{}", headers, response)]

Patch(endpoint, headers, response) ==
  /\ Requested
  /\ call' = [op |-> "patch", before |-> obj,
              arg |-> [endpoint |-> endpoint, headers |-> headers, response |-> response],
              out |-> patch(obj, endpoint, "{}", headers, response)]

Del(endpoint, headers, response) ==
  /\ Requested
  /\ call' = [op |-> "del", before |-> obj,
              arg |-> [endpoint |-> endpoint, headers |-> headers, response |-> response],
              out |-> del(obj, endpoint, headers, response)]

GetPaginated(endpoint, headers, response) ==
  /\ Requested
  /\ call' = [op |-> "get_paginated", before |-> obj,
              arg |-> [endpoint |-> endpoint, headers |-> headers, response |-> response],
              out |-> get_paginated(obj, endpoint, 2, 10, headers, response)]

\* the resource helpers, on the resource "users" and the id "7"
ResourceCall(op, headers, response) ==
  /\ Requested
  /\ call' = [op |-> op, before |-> obj,
              arg |-> [endpoint |-> "users", headers |-> headers, response |-> response],
              out |-> CASE op = "list" ->
                             list(obj, "users", [k \in {"q", "limit"} |->
                                                   IF k = "q" THEN "bob" ELSE "5"],
                                  headers, response)
                        [] op = "retrieve" -> retrieve(obj, "users", "7", headers, response)
                        [] op = "create" -> create(obj, "users", "{}", headers, response)
                        [] op = "update" -> update(obj, "users", "7", "{}", headers, response)
                        [] op = "partial_update" ->
                             partial_update(obj, "users", "7", "{}", headers, response)
                        [] op = "destroy" -> destroy(obj, "users", "7", headers, response)]

ResourceOps == { "list", "retrieve", "create", "update", "partial_update", "destroy" }

ClientInit ==
  /\ kind = "http"
  /\ routes_ = EmptyRoutes
  /\ middlewares_ = << >>
  /\ static_routes_ = EmptyMap
  /\ not_found_handler_ = ""
  /\ error_handler_ = ""
  /\ running_ = FALSE
  /\ listener = "open"
  /\ startPc = [t \in Starters |-> "idle"]
  /\ stopPc = [t \in Stoppers |-> "idle"]
  /\ stopAfterStart = FALSE
  /\ regs = 0
  /\ conns = << >>
  /\ terminated = FALSE
  /\ \E base_url \in { "http://api.test", "http://api.test/" } : obj = RESTClient(base_url)
  /\ call = [op |-> "", arg |-> "", before |-> obj, out |-> ""]
  /\ ncalls = 0

ClientNext ==
  \/ SetAuthBearer("t0k")
  \/ \E cr \in Credentials : SetAuthBasic(cr[1], cr[2])
  \/ SetAuthApiKey("k-123", "X-Api-Key")
  \/ \E h \in DefaultHeaderPairs : SetDefaultHeader(h[1], h[2])
  \/ \E e \in Endpoints, h \in CallHeaders, r \in ClientResponses : Get(e, h, r)
  \/ \E e \in Endpoints, h \in CallHeaders, r \in ClientResponses : Post(e, h, r)
  \/ \E e \in Endpoints, h \in CallHeaders, r \in ClientResponses : Put(e, h, r)
  \/ \E e \in Endpoints, h \in CallHeaders, r \in ClientResponses : Patch(e, h, r)
  \/ \E e \in Endpoints, h \in CallHeaders, r \in ClientResponses : Del(e, h, r)
  \/ \E e \in Endpoints, h \in CallHeaders, r \in ClientResponses : GetPaginated(e, h, r)
  \/ \E op \in ResourceOps, h \in CallHeaders, r \in ClientResponses : ResourceCall(op, h, r)

ClientSpec == ClientInit /\ [][ClientNext]_vars

-----------------------------------------------------------------------------
(* The static routes as the application registers them, one serve_static   *)
(* call after the other, and the resolver applied to the table they built. *)

StaticRoutePairs ==
  { << "/", "./www" >>, << "/static/", "./public" >>, << "/static", "./public" >>,
    << "/static/js", "./www" >>, << "/static/", "./www" >> }

StaticInit ==
  /\ kind = "http"
  /\ routes_ = EmptyRoutes
  /\ middlewares_ = << >>
  /\ static_routes_ = EmptyMap
  /\ not_found_handler_ = ""
  /\ error_handler_ = ""
  /\ running_ = FALSE
  /\ listener = "open"
  /\ Threads0

StaticNext ==
  \/ \E s \in StaticRoutePairs : call.op = "" /\ ServeStatic(s[1], s[2])
  \/ \E p \in StaticPaths : HandleStaticFile(p)

StaticSpec == StaticInit /\ [][StaticNext]_vars

-----------------------------------------------------------------------------
(* A server whose application goes on registering once start() has been    *)
(* invoked on another thread.                                              *)

\* a registration call made while a connection handler has yet to read the
\* tables: the write and the handler's read are a data race, which the build
\* may survive (the call then acts as Route, UseMiddleware and ServeStatic
\* say) or not; this is the outcome in which the process dies
RacingWrite ==
  /\ CanRegister
  /\ \E c \in DOMAIN conns : conns[c].pc \in {"recvuntil", "recv", "dispatch"}
  /\ terminated' = TRUE
  /\ regs' = regs + 1
  /\ UNCHANGED << harness, kind, routes_, middlewares_, static_routes_,
                  not_found_handler_, error_handler_, lifecycle, conns >>

LateNext ==
  \/ Route("GET", "/late", "pong")
  \/ UseMiddleware("tag")
  \/ ServeStatic("/", "./www")
  \/ RacingWrite
  \/ StartCheck("start1")
  \/ StartSet("start1")
  \/ StartLoop("start1")
  \/ \E w \in ServerRequests : Accept("start1", w)
  \/ \E c \in DOMAIN conns : HandleClient(c)

LateSpec == ServerInit /\ [][LateNext]_vars

-----------------------------------------------------------------------------
(* A server on which start() is called from two threads.                   *)

StartsNext ==
  \/ \E t \in Starters : StartCheck(t)
  \/ \E t \in Starters : StartSet(t)
  \/ \E t \in Starters : StartLoop(t)
  \/ \E t \in Starters : \E w \in ServerRequests : Accept(t, w)
  \/ \E t \in Starters : AcceptFail(t)
  \/ StopCheck("stop")
  \/ StopFlip("stop")
  \/ StopClose("stop")
  \/ \E c \in DOMAIN conns : HandleClient(c)

StartsSpec == ServerInit /\ [][StartsNext]_vars

-----------------------------------------------------------------------------
(* A server on which stop() is called from two threads, by the second one  *)
(* from the destructor.                                                    *)

\* ~HttpServer has returned: the members (server_, the tables, running_) are
\* gone
Destroyed == stopPc["destructor"] = "returned"

\* a thread that is about to read a member of the destroyed object: a
\* handler before its dispatch, a thread inside start() or stop().  The read
\* is undefined behaviour, which the build may survive (the thread then goes
\* on as its own action says) or not; this is the outcome in which the
\* process dies
UseAfterDestroy ==
  /\ Destroyed /\ ~terminated
  /\ \/ \E c \in DOMAIN conns : conns[c].pc = "dispatch"
     \/ \E t \in Starters : startPc[t] \in {"set", "loop", "accept"}
     \/ \E t \in Stoppers : stopPc[t] \in {"flip", "close"}
  /\ terminated' = TRUE
  /\ UNCHANGED << harness, config, lifecycle, conns >>

\* no call is begun on the destroyed object, and its listener hands out no
\* further client
StopsNext ==
  \/ ~Destroyed /\ StartCheck("start1")
  \/ StartSet("start1")
  \/ StartLoop("start1")
  \/ \E w \in ServerRequests : ~Destroyed /\ Accept("start1", w)
  \/ AcceptFail("start1")
  \/ \E t \in Stoppers : ~Destroyed /\ StopCheck(t)
  \/ \E t \in Stoppers : StopFlip(t)
  \/ \E t \in Stoppers : StopClose(t)
  \/ \E c \in DOMAIN conns : HandleClient(c)
  \/ UseAfterDestroy

StopsSpec == ServerInit /\ [][StopsNext]_vars

-----------------------------------------------------------------------------
(* Properties.                                                             *)

\* the connection's thread has run the middlewares (and whatever followed)
Dispatched(k) == k.log # << >>

\* the connection's thread is past client->send
Sent(k) == k.pc \in {"close", "done"} /\ k.sent # << >>

\* the request the connection's thread parsed (the local HttpRequest request)
RequestOf(k) == k.request

\* what the configured middlewares do with the connection's request
MiddlewareOutcome(k) ==
  RunMiddlewares(middlewares_, 1, RequestOf(k), HttpResponse(200), << >>)

RouteKeyOf(k) == RequestOf(k).method \o " " \o RequestOf(k).path

Events(k, evs) == { i \in DOMAIN k.log : k.log[i].ev \in evs }

\* C1: when a middleware returns false for a request, no route handler, no
\* static-file resolution and no not-found handler is invoked for it, and the
\* response that is sent is the response object as the middlewares up to and
\* including the stopping one left it.
MiddlewareStopHolds(k) ==
  Dispatched(k) => With(MiddlewareOutcome(k), LAMBDA m :
    m.kind = "stop" =>
       /\ Events(k, {"route", "user", "static", "not_found", "error_handler"}) = {}
       /\ k.log = m.log
       /\ k.log[Len(k.log)].ev = "middleware"
       /\ k.pc \in {"send", "close", "done"}
       /\ k.response = m.res
       /\ k.pc \in {"close", "done"} => k.sent = << to_string(m.res) >>)

C1_MiddlewareStopBypassesRouting ==
  \A c \in DOMAIN conns : MiddlewareStopHolds(conns[c])

\* a connection that a middleware stopped although a route matches its
\* request, after the response went out
C1_Witness ==
  \E c \in DOMAIN conns :
    /\ Sent(conns[c])
    /\ MiddlewareOutcome(conns[c]).kind = "stop"
    /\ RouteKeyOf(conns[c]) \in DOMAIN routes_
    /\ conns[c].response.status_code = 401

\* C2: when every middleware continues and the route table holds the key
\* "METHOD path" of the request (path without the query string), that handler
\* is invoked exactly once, what it returns is the response that is sent, and
\* neither the static-file resolver nor the "GET /404" handler is consulted.
ExactRouteHolds(k) ==
  Dispatched(k) => With(RouteKeyOf(k), LAMBDA key :
    (key \in DOMAIN routes_ /\ MiddlewareOutcome(k).kind = "continue") =>
       /\ Cardinality({ i \in Events(k, {"route"}) : k.log[i].who = key }) = 1
       /\ Cardinality(Events(k, {"route"})) = 1
       /\ Events(k, {"static", "not_found"}) = {}
       /\ With(Invoke(routes_[key], RequestOf(k), not_found_handler_, error_handler_),
               LAMBDA r :
                 r.out.kind = "return" =>
                   /\ k.pc \in {"send", "close", "done"}
                   /\ k.response = r.out.resp
                   /\ k.pc \in {"close", "done"} => k.sent = << to_string(r.out.resp) >>))

C2_ExactRouteMatchInvokesHandler ==
  \A c \in DOMAIN conns : ExactRouteHolds(conns[c])

\* a request with a query string whose route matched behind a middleware
\* that let it through, after the handler's response went out
C2_Witness ==
  \E c \in DOMAIN conns :
    /\ Sent(conns[c])
    /\ middlewares_ # << >>
    /\ MiddlewareOutcome(conns[c]).kind = "continue"
    /\ RequestOf(conns[c]).query # ""
    /\ RouteKeyOf(conns[c]) \in DOMAIN routes_
    /\ conns[c].response.body = "pong"

\* the key RESTServer::resource uses for the handler fn of the resource name
ResourceKey(name, fn) == ResourceMethod(fn) \o " " \o ResourcePath(name, fn)

ResourceKeys(name) == { ResourceKey(name, ResourceFns[i]) : i \in DOMAIN ResourceFns }

\* resource(name, ...) was called with the handler fn supplied
Registered(name, fn) ==
  /\ ResourceKey(name, fn) \in DOMAIN routes_
  /\ routes_[ResourceKey(name, fn)].fn = fn
  /\ routes_[ResourceKey(name, fn)].name = name

\* C3: after RESTServer::resource("users", handlers) with a retrieve handler,
\* a request GET /users/42 invokes that retrieve handler with id "42".
RetrieveHolds(k) ==
  (/\ Dispatched(k)
   /\ MiddlewareOutcome(k).kind = "continue"
   /\ Registered("users", "retrieve")
   /\ RequestOf(k).method = "GET"
   /\ RequestOf(k).path = "/users/42")
  => \E i \in DOMAIN k.log :
       k.log[i] = Event("user", routes_[ResourceKey("users", "retrieve")].user, "42")

C3_RetrieveInvokedWithId ==
  \A c \in DOMAIN conns : RetrieveHolds(conns[c])

\* resource() adds no key for a handler that is not supplied
ResourceAddsOnlySupplied ==
  \A h \in ResourceHandlers :
    \A i \in DOMAIN ResourceFns :
      ResourceFns[i] \notin DOMAIN h =>
        (ResourceKey("users", ResourceFns[i]) \in DOMAIN resource(routes_, "users", h, 1)
           <=> ResourceKey("users", ResourceFns[i]) \in DOMAIN routes_)

\* a request for a key of the resource "users" that is not in the route
\* table, on a REST server where resource("users", ...) was called
ForAbsentHandler(k) ==
  /\ kind = "rest"
  /\ Dispatched(k)
  /\ \E i \in DOMAIN ResourceFns : Registered("users", ResourceFns[i])
  /\ RouteKeyOf(k) \in ResourceKeys("users")
  /\ RouteKeyOf(k) \notin DOMAIN routes_

\* C4 as stated: resource() registers a route only for a supplied handler,
\* and a request for the key of an absent one (that the middlewares let
\* through) is answered with status 404.
C4_AbsentHandlerAnswered404 ==
  /\ ResourceAddsOnlySupplied
  /\ \A c \in DOMAIN conns :
       (ForAbsentHandler(conns[c]) /\ MiddlewareOutcome(conns[c]).kind = "continue") =>
         /\ conns[c].pc \in {"send", "close", "done"}
         /\ conns[c].response.status_code = 404
         /\ conns[c].pc = "done" => Sent(conns[c])

\* the "GET /404" route is the one the RESTServer constructor installed
DefaultNotFoundInstalled ==
  /\ NotFoundKey \in DOMAIN routes_
  /\ routes_[NotFoundKey].wrap = "not_found"
  /\ not_found_handler_ = "default_not_found"

\* C4 (amended): resource() registers a route only for a supplied handler; a
\* request for the key of an absent one, once every middleware returned
\* continue, falls through to static-file resolution, and is answered with
\* status 404 when that resolution yields 404 (by the default not-found
\* handler).
C4_AbsentHandlerFallsThrough ==
  /\ ResourceAddsOnlySupplied
  /\ \A c \in DOMAIN conns :
       (/\ ForAbsentHandler(conns[c])
        /\ DefaultNotFoundInstalled
        /\ MiddlewareOutcome(conns[c]).kind = "continue") =>
         /\ Events(conns[c], {"route", "user"}) = {}
         /\ Events(conns[c], {"static"}) # {}
         /\ conns[c].pc \in {"send", "close", "done"}
         /\ conns[c].response =
              handle_static_file(static_routes_, RequestOf(conns[c])).resp
            \/ /\ handle_static_file(static_routes_, RequestOf(conns[c])).resp.status_code = 404
               /\ conns[c].response.status_code = 404
               /\ conns[c].response.headers["Content-Type"] = "application/json"
         /\ conns[c].pc = "done" => Sent(conns[c])

\* POST /users was answered 404 by a server on which only retrieve was
\* registered for "users"
C4_Witness ==
  \E c \in DOMAIN conns :
    /\ ForAbsentHandler(conns[c])
    /\ Sent(conns[c])
    /\ RouteKeyOf(conns[c]) = "POST /users"
    /\ Registered("users", "retrieve")
    /\ ~Registered("users", "list")
    /\ conns[c].response.status_code = 404

-----------------------------------------------------------------------------
(* Reading a flat JSON object of string members, as a client would.        *)

\* the position of the quote that closes the string whose first character
\* is at i (a backslash escapes the character after it); 0 when there is none
RECURSIVE JsonStringEnd(_, _)
JsonStringEnd(s, i) ==
  IF i > Len(s) THEN 0
  ELSE IF CharAt(s, i) = "\\" THEN JsonStringEnd(s, i + 2)
  ELSE IF CharAt(s, i) = "\"" THEN i
  ELSE JsonStringEnd(s, i + 1)

\* the string literal that opens at p
JsonString(s, p) ==
  IF CharAt(s, p) # "\"" THEN [ok |-> FALSE, val |-> "", pos |-> 0]
  ELSE With(JsonStringEnd(s, p + 1), LAMBDA e :
         IF e = 0 THEN [ok |-> FALSE, val |-> "", pos |-> 0]
         ELSE [ok |-> TRUE, val |-> SubSeq(s, p + 1, e - 1), pos |-> e + 1])

NotJson == [ok |-> FALSE, members |-> EmptyMap]

RECURSIVE JsonMembers(_, _, _)
JsonMembers(s, p, acc) ==
  With(JsonString(s, p), LAMBDA k :
    IF ~k.ok \/ CharAt(s, k.pos) # ":" THEN NotJson
    ELSE With(JsonString(s, k.pos + 1), LAMBDA v :
      IF ~v.ok THEN NotJson
      ELSE IF CharAt(s, v.pos) = "," THEN JsonMembers(s, v.pos + 1, MapSet(acc, k.val, v.val))
      ELSE IF CharAt(s, v.pos) = "}" /\ v.pos = Len(s)
      THEN [ok |-> TRUE, members |-> MapSet(acc, k.val, v.val)]
      ELSE NotJson))

JsonObject(s) ==
  IF s = "{}" THEN [ok |-> TRUE, members |-> EmptyMap]
  ELSE IF CharAt(s, 1) = "{" THEN JsonMembers(s, 2, EmptyMap)
  ELSE NotJson

\* the JSON object s has the member key with the value val
JsonHas(s, key, val) ==
  With(JsonObject(s), LAMBDA o :
    o.ok /\ key \in DOMAIN o.members /\ o.members[key] = val)

\* text that json_response can carry unchanged: no quote, no backslash, no
\* control character
JsonPlain(s) ==
  \A i \in 1..Len(s) : CharAt(s, i) \notin {"\"", "\\", "\r", "\n", "\t"}

-----------------------------------------------------------------------------

\* the request of k was routed to a handler registered through RESTServer
RoutedToJson(k) ==
  /\ Dispatched(k)
  /\ MiddlewareOutcome(k).kind = "continue"
  /\ RouteKeyOf(k) \in DOMAIN routes_
  /\ routes_[RouteKeyOf(k)].wrap = "json"

\* what the user's handler behind that route did
JsonHandlerOutcome(k) == JsonHandlerCall(routes_[RouteKeyOf(k)], RequestOf(k)).out

RaisedRestException(k) ==
  /\ RoutedToJson(k)
  /\ JsonHandlerOutcome(k).kind = "throw"
  /\ JsonHandlerOutcome(k).exc.type = "rest"

RestExceptionTranslated(k) ==
  With(JsonHandlerOutcome(k).exc, LAMBDA e :
    /\ k.pc \in {"send", "close", "done"}
    /\ k.response.status_code = e.status_code
    /\ JsonHas(k.response.body, "error", e.status_message)
    /\ JsonHas(k.response.body, "message", e.what)
    /\ Events(k, {"error_handler"}) = {})

\* C5 as stated: a RESTException(c, s, d) raised by a handler registered
\* through RESTServer gives a response with status c and a JSON body whose
\* "error" is s and whose "message" is d; the error callback is not invoked.
C5_RestExceptionBecomesJson ==
  \A c \in DOMAIN conns :
    RaisedRestException(conns[c]) => RestExceptionTranslated(conns[c])

\* C5 (amended): the same for s and d that hold no quote, backslash or
\* control character; json_response escapes nothing.
C5_PlainRestExceptionBecomesJson ==
  \A c \in DOMAIN conns :
    (/\ RaisedRestException(conns[c])
     /\ JsonPlain(JsonHandlerOutcome(conns[c]).exc.status_message)
     /\ JsonPlain(JsonHandlerOutcome(conns[c]).exc.what))
    => RestExceptionTranslated(conns[c])

\* a 404 RESTException of a handler came back as JSON and went out
C5_Witness ==
  \E c \in DOMAIN conns :
    /\ RaisedRestException(conns[c])
    /\ Sent(conns[c])
    /\ conns[c].response.status_code = 404
    /\ JsonHas(conns[c].response.body, "message", "no such user")

\* the user's handler behind a RESTServer route raised something that is not
\* a RESTException
RaisedOtherError(k) ==
  /\ RoutedToJson(k)
  /\ JsonHandlerOutcome(k).kind = "throw"
  /\ JsonHandlerOutcome(k).exc.type # "rest"

\* C6: an uncaught error of user handler code that is not a RESTException
\* yields a response with status 500 whose body is a JSON object with an
\* "error" key (the default error callback being installed), and that
\* response is sent to the client.
C6_HandlerErrorBecomes500 ==
  \A c \in DOMAIN conns :
    (RaisedOtherError(conns[c]) /\ error_handler_ = "default_error") =>
       /\ conns[c].pc \in {"send", "close", "done"}
       /\ conns[c].response.status_code = 500
       /\ JsonObject(conns[c].response.body).ok
       /\ "error" \in DOMAIN JsonObject(conns[c].response.body).members
       /\ conns[c].pc = "done" => Sent(conns[c])

\* C7: the connection handler calls close() on the connection before it
\* finishes, on the path where a response was sent and on every path where
\* reading, parsing, a middleware or a route handler raised an exception.
C7_HandlerAlwaysCloses ==
  \A c \in DOMAIN conns : conns[c].pc = "done" => conns[c].closes >= 1

\* C8: no error raised while reading, parsing or dispatching a connection
\* escapes the connection handler: the process is not terminated and the
\* accept loop goes on.
C8_NoErrorEscapesHandler ==
  /\ ~terminated
  /\ \A c \in DOMAIN conns : conns[c].pc # "dead"

\* the request bytes of k could be parsed (the Content-Length scan included)
Parsable(k) == k.raw_request # "" /\ ContentLengthOf(k.raw_request).ok

\* C9: every connection whose request bytes can be parsed has been sent a
\* serialized response when its handler finishes; only an unparsable byte
\* stream ends in a close with no response.
C9_ParsableRequestGetsResponse ==
  \A c \in DOMAIN conns :
    (conns[c].pc = "done" /\ Parsable(conns[c])) =>
       /\ conns[c].sent # << >>
       /\ StartsWith(conns[c].sent[1], "HTTP/1.1 ")

\* C10: whenever stop() is called after start() was invoked on another
\* thread, the accept loop eventually exits and start() returns, whatever
\* the interleaving of the two (unless the process was terminated before).
C10_StopEndsAcceptLoop ==
  (stopAfterStart /\ stopPc["stop"] = "returned")
     ~> (startPc["start1"] \in {"returned", "threw"} \/ terminated)

-----------------------------------------------------------------------------
(* The resource mapper's DELETE route.                                     *)

\* the bytes of a serialized response after the blank line that ends the
\* header block
BodyBytes(wire) ==
  With({ j \in 1..(Len(wire) - 3) : SubSeq(wire, j, j + 3) = CRLF \o CRLF }, LAMBDA ends :
    IF ends = {} THEN ""
    ELSE SubstrFrom(wire, 4 + CHOOSE j \in ends : \A i \in ends : j <= i))

\* sub occurs somewhere in s
Occurs(s, sub) ==
  \E j \in 1..(Len(s) - Len(sub) + 1) : SubSeq(s, j, j + Len(sub) - 1) = sub

\* the connection's request reached the destroy lambda of
\* RESTServer::resource and the user's destroy handler returned
DestroySucceeded(k) ==
  /\ RoutedToJson(k)
  /\ routes_[RouteKeyOf(k)].fn = "destroy"
  /\ UserCall(routes_[RouteKeyOf(k)].user, RequestOf(k),
              extract_id_from_path(RequestOf(k).path, routes_[RouteKeyOf(k)].name)).kind
       = "return"

\* C11: a successful call of a resource's destroy handler, through the
\* DELETE route registered by RESTServer::resource, yields a response with
\* status 204 and an empty body: zero bytes after the header block.
C11_DestroyAnswers204Empty ==
  \A c \in DOMAIN conns :
    (DestroySucceeded(conns[c]) /\ Sent(conns[c])) =>
       /\ conns[c].response.status_code = 204
       /\ conns[c].response.body = ""
       /\ BodyBytes(conns[c].sent[1]) = ""

-----------------------------------------------------------------------------
(* The response object's setters.                                          *)

\* v is the decimal numeral of n
IsDecimalOf(v, n) ==
  /\ v # ""
  /\ \A i \in 1..Len(v) : IsDigit(CharAt(v, i))
  /\ (Len(v) > 1 => CharAt(v, 1) # "0")
  /\ DigitsToNat(v, 1, 0) = n

\* the Content-Length header of a response: whether it is there, and its value
ContentLengthHeader(r) ==
  IF "Content-Length" \in DOMAIN r.headers
  THEN << TRUE, r.headers["Content-Length"] >> ELSE << FALSE, "" >>

BodySetters == {"set_body", "set_json", "set_html"}

\* C12: immediately after every call set_body(c), set_json(c) or
\* set_html(c), headers["Content-Length"] is the decimal length of c,
\* whatever it was before (set_body("hello") gives "5"); set_status,
\* set_cookie and redirect leave the body and Content-Length as they were.
C12_BodySettersSetContentLength ==
  /\ call.op \in BodySetters =>
       /\ obj.body = call.arg
       /\ ContentLengthHeader(obj)[1]
       /\ IsDecimalOf(ContentLengthHeader(obj)[2], Len(call.arg))
       /\ call.arg = "hello" => obj.headers["Content-Length"] = "5"
  /\ call.op \in {"set_status", "set_cookie", "redirect"} =>
       /\ obj.body = call.before.body
       /\ ContentLengthHeader(obj) = ContentLengthHeader(call.before)

\* set_body("hello") on a response whose Content-Length was another value
C12_Witness ==
  /\ call.op = "set_body" /\ call.arg = "hello"
  /\ ContentLengthHeader(call.before) = << TRUE, "99" >>
  /\ obj.headers["Content-Length"] = "5"

-----------------------------------------------------------------------------
(* Content-Length of the responses sent.                                   *)

\* the response carries a Content-Length header whose value is the byte
\* length of the body that went out
LengthMatchesBody(k) ==
  /\ "Content-Length" \in DOMAIN k.response.headers
  /\ IsDecimalOf(k.response.headers["Content-Length"], Len(BodyBytes(k.sent[1])))
  /\ Occurs(k.sent[1],
            CRLF \o "Content-Length: " \o k.response.headers["Content-Length"] \o CRLF)

\* the response carries no Content-Length header and no body
NoLengthNoBody(k) ==
  /\ "Content-Length" \notin DOMAIN k.response.headers
  /\ ~Occurs(k.sent[1], "Content-Length")
  /\ BodyBytes(k.sent[1]) = ""

\* the response was built by the library alone: by the static resolver or
\* the built-in 404 page, or by RESTServer around a JSON handler
BuiltByLibrary(k) ==
  /\ MiddlewareOutcome(k).kind = "continue"
  /\ \/ Events(k, {"user"}) = {}
     \/ RoutedToJson(k) /\ JsonHandlerOutcome(k).kind = "throw"
     \/ RoutedToJson(k) /\ routes_[RouteKeyOf(k)].fn = "destroy"

\* C13 as stated: every response that the connection handler sends (from a
\* stopping middleware, a route handler, the static resolver, the not-found
\* handler or the default 404) carries a Content-Length header whose value
\* equals the byte length of the body that is sent.
C13_SentResponseHasContentLength ==
  \A c \in DOMAIN conns : Sent(conns[c]) => LengthMatchesBody(conns[c])

\* C13, amended: with handlers and middlewares that set a body only through
\* set_body, set_json or set_html, every response sent either carries a
\* Content-Length header equal to the byte length of the body sent, or, its
\* body never having been set, carries no Content-Length header and no body;
\* the responses the library builds itself are always of the first kind.
C13_ContentLengthMatchesWhenBodySet ==
  \A c \in DOMAIN conns :
    Sent(conns[c]) =>
      \/ LengthMatchesBody(conns[c])
      \/ NoLengthNoBody(conns[c]) /\ ~BuiltByLibrary(conns[c])

\* a response whose body no middleware or handler had set went out, without
\* a Content-Length header
C13_Witness ==
  \E c \in DOMAIN conns :
    /\ Sent(conns[c])
    /\ MiddlewareOutcome(conns[c]).kind = "stop"
    /\ conns[c].response.status_code = 403
    /\ NoLengthNoBody(conns[c])

-----------------------------------------------------------------------------
(* Requests the parser is said to reject.                                  *)

\* the first line of the bytes received, without its line end
FirstLine(raw) ==
  With({ j \in 1..(Len(raw) - 1) : SubSeq(raw, j, j + 1) = CRLF }, LAMBDA ends :
    IF ends = {} THEN raw
    ELSE SubSeq(raw, 1, (CHOOSE j \in ends : \A i \in ends : j <= i) - 1))

\* how many blank-separated words a line has
WordCount(line) ==
  Cardinality({ j \in 1..Len(line) :
                  /\ CharAt(line, j) \notin Space
                  /\ (j = 1 \/ CharAt(line, j - 1) \in Space) })

\* bytes were received and their first line lacks the method, the target or
\* the version
MalformedRequestLine(k) == k.raw_request # "" /\ WordCount(FirstLine(k.raw_request)) < 3

\* C14: a request whose first line is missing the method, the target or the
\* version is rejected with a parse error: no Request is produced for it and
\* no middleware, route handler, static resolver or not-found handler is
\* ever invoked for that connection.
C14_MalformedRequestLineRejected ==
  \A c \in DOMAIN conns :
    MalformedRequestLine(conns[c]) =>
       /\ conns[c].log = << >>
       /\ conns[c].pc \notin {"send", "close"}
       /\ conns[c].sent = << >>
       /\ conns[c].pc = "done" => conns[c].caught.type # "none"

\* the text of the Content-Length value in the bytes received, white space
\* around it removed; "" when the header block has no Content-Length
ContentLengthText(raw) ==
  With(Find(raw, "Content-Length:"), LAMBDA p :
    IF p = 0 THEN ""
    ELSE TrimValue(SubSeq(raw, p + 15, FindFrom(raw, CRLF, p + 15) - 1)))

\* the header block has a Content-Length whose value is not entirely a
\* non-negative decimal integer
BadContentLength(k) ==
  /\ Find(k.raw_request, "Content-Length:") # 0
  /\ With(ContentLengthText(k.raw_request), LAMBDA v :
       v = "" \/ \E i \in 1..Len(v) : ~IsDigit(CharAt(v, i)))

\* C15: a request whose Content-Length value is not entirely a non-negative
\* decimal integer (empty, non-numeric, or digits followed by other
\* characters) is rejected with a parse error: no body read is performed for
\* it, it is never dispatched, and no response is sent.
C15_BadContentLengthRejected ==
  \A c \in DOMAIN conns :
    BadContentLength(conns[c]) =>
       /\ conns[c].pc = "done"
       /\ conns[c].caught.type = "std"
       /\ BodyBytes(conns[c].raw_request) = ""
       /\ conns[c].log = << >>
       /\ conns[c].sent = << >>

-----------------------------------------------------------------------------
(* Request headers.                                                        *)

\* the letter-casings of the header names asked for
NameCasings ==
  { {"X-Tag", "x-tag", "X-TAG", "x-TAG"}, {"Host", "host", "HOST", "hOsT"},
    {"Accept", "accept", "ACCEPT"} }

\* where the lines after the request line start in the raw request
HeaderLineStarts(raw) ==
  { j + 2 : j \in { i \in 1..(Len(raw) - 1) : SubSeq(raw, i, i + 1) = CRLF } }

\* the line that starts at s, without its line end
LineAt(raw, s) ==
  With({ j \in s..(Len(raw) - 1) : SubSeq(raw, j, j + 1) = CRLF }, LAMBDA ends :
    IF ends = {} THEN SubstrFrom(raw, s)
    ELSE SubSeq(raw, s, (CHOOSE j \in ends : \A i \in ends : j <= i) - 1))

\* the text of a header line before its first colon; the whole line when it
\* has none
NamePart(line) ==
  With({ j \in 1..Len(line) : CharAt(line, j) = ":" }, LAMBDA colons :
    IF colons = {} THEN line
    ELSE SubSeq(line, 1, (CHOOSE j \in colons : \A i \in colons : j <= i) - 1))

\* v without the blanks and tabs around it
Trimmed(v) ==
  With({ j \in 1..Len(v) : CharAt(v, j) \notin {" ", "\t"} }, LAMBDA inked :
    IF inked = {} THEN ""
    ELSE SubSeq(v, CHOOSE j \in inked : \A i \in inked : j <= i,
                   CHOOSE j \in inked : \A i \in inked : j >= i))

\* the value of a header line: what follows its first colon, trimmed
ValuePart(line) == Trimmed(SubstrFrom(line, Len(NamePart(line)) + 2))

\* the starts of the header lines whose name is one of the casings in names
LinesNamed(raw, names) ==
  { s \in HeaderLineStarts(raw) :
      /\ NamePart(LineAt(raw, s)) \in names
      /\ NamePart(LineAt(raw, s)) # LineAt(raw, s) }

\* the trimmed value of the last of those lines
LastValue(raw, names) ==
  With(LinesNamed(raw, names), LAMBDA ls :
    ValuePart(LineAt(raw, CHOOSE s \in ls : \A t \in ls : s >= t)))

\* C16: for every Request produced by the parser and every header name n,
\* get_header(n) and has_header(n) give the same result for every
\* letter-casing of n; when the raw request has several header lines whose
\* names are equal ignoring case, the stored value is that of the last such
\* line, with the white space around the value trimmed.
C16_HeaderLookupIgnoresCase ==
  call.op = "parse_request" =>
    \A names \in NameCasings : \A n \in names :
      /\ \A n2 \in names :
           /\ get_header(call.out, n) = get_header(call.out, n2)
           /\ has_header(call.out, n) = has_header(call.out, n2)
      /\ has_header(call.out, n) = (LinesNamed(call.arg, names) # {})
      /\ get_header(call.out, n) =
           IF LinesNamed(call.arg, names) # {} THEN LastValue(call.arg, names) ELSE ""

\* a request with the lines "X-Tag:a" and then "x-tag: b<TAB>" was parsed,
\* and the header is found under a third casing with the value "b"
C16_Witness ==
  /\ call.op = "parse_request"
  /\ call.arg = "GET /p HTTP/1.1" \o CRLF \o "X-Tag:a" \o CRLF \o "x-tag: b\t" \o CRLF \o CRLF
  /\ get_header(call.out, "X-TAG") = "b"
  /\ has_header(call.out, "x-TAG")

-----------------------------------------------------------------------------
(* The static resolver and directory traversal.                            *)

\* p is a prefix of path and what follows it in path contains ".."
TraversalUnder(p, path) ==
  /\ Len(p) <= Len(path)
  /\ SubSeq(path, 1, Len(p)) = p
  /\ Occurs(SubSeq(path, Len(p) + 1, Len(path)), "..")

\* C17: for every static prefix p that is a prefix of the request path, if
\* the remainder of the path after p contains ".." anywhere, the static
\* resolver returns status 403 and makes no query of the file system;
\* /static/../../etc/passwd under the prefix /static returns 403.
C17_TraversalForbidden ==
  call.op = "handle_static_file" =>
    \A p \in DOMAIN static_routes_ :
      TraversalUnder(p, call.arg) =>
         /\ call.out.resp.status_code = 403
         /\ call.out.fs = << >>

\* /static/../../etc/passwd was resolved with the prefix /static registered
C17_Witness ==
  /\ call.op = "handle_static_file"
  /\ call.arg = "/static/../../etc/passwd"
  /\ "/static" \in DOMAIN static_routes_
  /\ call.out.resp.status_code = 403
  /\ call.out.fs = << >>

-----------------------------------------------------------------------------
(* The 404 fallback.                                                       *)

\* all middlewares continued, no exact route matched the connection's
\* request and the static resolver answered 404
Unmatched(k) ==
  /\ Dispatched(k)
  /\ RouteKeyOf(k) \notin DOMAIN routes_
  /\ MiddlewareOutcome(k).kind = "continue"
  /\ handle_static_file(static_routes_, RequestOf(k)).resp.status_code = 404

\* C18: when all middlewares continue, no exact route matches, static
\* resolution yields 404 and no handler is registered under "GET /404", the
\* response sent has status 404 and the fixed HTML body, for every state of
\* the route table, an empty one included.
C18_DefaultNotFoundPage ==
  \A c \in DOMAIN conns :
    (Unmatched(conns[c]) /\ NotFoundKey \notin DOMAIN routes_ /\ Sent(conns[c])) =>
       /\ conns[c].response.status_code = 404
       /\ conns[c].response.body = NotFoundHtml
       /\ BodyBytes(conns[c].sent[1]) = NotFoundHtml

\* what the handler registered under "GET /404" does with the connection's
\* request
NotFoundHandlerOutcome(k) ==
  Invoke(routes_[NotFoundKey], RequestOf(k), not_found_handler_, error_handler_).out

\* the connection's response is what that handler returned
AnsweredByNotFoundHandler(k) ==
  With(NotFoundHandlerOutcome(k), LAMBDA o :
    o.kind = "return" =>
       /\ k.pc \in {"send", "close", "done"}
       /\ k.response = o.resp
       /\ k.pc \in {"close", "done"} => k.sent = << to_string(o.resp) >>)

\* C19: when all middlewares continue, no exact route matches the request,
\* static resolution yields 404 and a handler is registered under "GET /404",
\* that handler is invoked with the request and what it returns is the
\* response sent, whatever the request's method and path; a request that is
\* literally GET /404 also receives that handler's response.
C19_NotFoundHandlerAnswers ==
  \A c \in DOMAIN conns :
    (Dispatched(conns[c]) /\ NotFoundKey \in DOMAIN routes_) =>
       /\ Unmatched(conns[c]) =>
            /\ Cardinality(Events(conns[c], {"not_found"})) = 1
            /\ AnsweredByNotFoundHandler(conns[c])
       /\ (RouteKeyOf(conns[c]) = NotFoundKey
             /\ MiddlewareOutcome(conns[c]).kind = "continue") =>
            AnsweredByNotFoundHandler(conns[c])

\* a POST that matched no route and no file was answered by the handler
\* under "GET /404", behind a middleware that let it through
C19_Witness ==
  \E c \in DOMAIN conns :
    /\ Sent(conns[c])
    /\ NotFoundKey \in DOMAIN routes_
    /\ middlewares_ # << >>
    /\ Unmatched(conns[c])
    /\ RequestOf(conns[c]).method = "POST"
    /\ conns[c].response = NotFoundHandlerOutcome(conns[c]).resp
    /\ conns[c].response.status_code = 404
    /\ JsonHas(conns[c].response.body, "error", "Not Found")

-----------------------------------------------------------------------------
(* Query strings.                                                          *)

\* where the '&'-separated pairs of a query string start; nothing starts
\* after a final '&'
PairStarts(query) ==
  { s \in {1} \cup { j + 1 : j \in { i \in 1..Len(query) : CharAt(query, i) = "&" } } :
      s <= Len(query) }

\* the pair that starts at s
PairAt(query, s) ==
  With({ j \in s..Len(query) : CharAt(query, j) = "&" }, LAMBDA ends :
    IF ends = {} THEN SubstrFrom(query, s)
    ELSE SubSeq(query, s, (CHOOSE j \in ends : \A i \in ends : j <= i) - 1))

\* the text of a pair before its first '=', the whole pair when it has none
KeyText(pair) ==
  With({ j \in 1..Len(pair) : CharAt(pair, j) = "=" }, LAMBDA eqs :
    IF eqs = {} THEN pair
    ELSE SubSeq(pair, 1, (CHOOSE j \in eqs : \A i \in eqs : j <= i) - 1))

\* the text after the first '=', "" when the pair has none
ValueText(pair) == SubstrFrom(pair, Len(KeyText(pair)) + 2)

\* C20 as stated: parse_query_string maps a query string split on '&' so
\* that each pair containing '=' maps the text before the first '=' to the
\* text after it, and each non-empty pair without '=' maps to the empty
\* string; "a=1&b=2&flag" yields exactly {a:"1", b:"2", flag:""}, and when a
\* key repeats the last occurrence wins.
C20_QueryPairsAsWritten ==
  call.op = "parse_query_string" =>
    /\ \A s \in { t \in PairStarts(call.arg) : PairAt(call.arg, t) # "" } :
         With(KeyText(PairAt(call.arg, s)), LAMBDA key :
           /\ key \in DOMAIN call.out
           /\ call.out[key] =
                ValueText(PairAt(call.arg,
                  CHOOSE t \in PairStarts(call.arg) :
                    /\ KeyText(PairAt(call.arg, t)) = key
                    /\ \A u \in PairStarts(call.arg) :
                         KeyText(PairAt(call.arg, u)) = key => u <= t)))
    /\ call.arg = "a=1&b=2&flag" =>
         call.out = [k \in {"a", "b", "flag"} |->
                       IF k = "a" THEN "1" ELSE IF k = "b" THEN "2" ELSE ""]

\* C20, amended: each pair containing '=' maps the URL-decoded text before
\* the first '=' to the URL-decoded text after it, and each non-empty pair
\* without '=' maps its URL-decoded text to the empty string;
\* "a=1&b=2&flag" yields exactly {a:"1", b:"2", flag:""}, and when a decoded
\* key repeats the last occurrence wins.
C20_QueryPairsDecoded ==
  call.op = "parse_query_string" =>
    /\ \A s \in { t \in PairStarts(call.arg) : PairAt(call.arg, t) # "" } :
         With(url_decode(KeyText(PairAt(call.arg, s))), LAMBDA key :
           /\ key \in DOMAIN call.out
           /\ call.out[key] =
                url_decode(ValueText(PairAt(call.arg,
                  CHOOSE t \in PairStarts(call.arg) :
                    /\ url_decode(KeyText(PairAt(call.arg, t))) = key
                    /\ \A u \in PairStarts(call.arg) :
                         url_decode(KeyText(PairAt(call.arg, u))) = key => u <= t))))
    /\ call.arg = "a=1&b=2&flag" =>
         call.out = [k \in {"a", "b", "flag"} |->
                       IF k = "a" THEN "1" ELSE IF k = "b" THEN "2" ELSE ""]

\* an encoded key that repeats in another spelling was parsed: the last
\* value is the one kept, under the decoded key
C20_Witness ==
  /\ call.op = "parse_query_string"
  /\ call.arg = "a+b=1&a%20b=2"
  /\ call.out = [k \in {"a b"} |-> "2"]

-----------------------------------------------------------------------------
(* Cookies.                                                                *)

\* the casings in which the Cookie header is written
CookieNames == {"Cookie", "cookie", "COOKIE"}

\* where the ';'-separated pieces of a Cookie header start; nothing starts
\* after a final ';'
PieceStarts(h) ==
  { s \in {1} \cup { j + 1 : j \in { i \in 1..Len(h) : CharAt(h, i) = ";" } } :
      s <= Len(h) }

\* the piece that starts at s, trimmed of the blanks and tabs around it
PieceAt(h, s) ==
  With({ j \in s..Len(h) : CharAt(h, j) = ";" }, LAMBDA ends :
    Trimmed(IF ends = {} THEN SubstrFrom(h, s)
            ELSE SubSeq(h, s, (CHOOSE j \in ends : \A i \in ends : j <= i) - 1)))

\* the starts of the pieces of h that contain '='
CookieStarts(h) == { s \in PieceStarts(h) : Occurs(PieceAt(h, s), "=") }

\* the cookie map that the pieces of h describe: the text before the first
\* '=' of each piece containing one, mapped to the text after it (of the
\* last such piece when several share that text)
CookiesOf(h) ==
  [key \in { KeyText(PieceAt(h, s)) : s \in CookieStarts(h) } |->
     ValueText(PieceAt(h,
       CHOOSE t \in CookieStarts(h) :
         /\ KeyText(PieceAt(h, t)) = key
         /\ \A u \in CookieStarts(h) : KeyText(PieceAt(h, u)) = key => u <= t))]

\* C21: the Cookie header is split on ';', each piece is trimmed of the
\* spaces and tabs around it, and each piece containing '=' maps the text
\* before its first '=' to the text after it; "x=1; y=2" yields exactly
\* {x:"1", y:"2"}. The cookie map is non-empty only if the request has a
\* Cookie header.
C21_CookiesFromCookieHeader ==
  call.op = "parse_request" =>
    /\ call.out.cookies # EmptyMap => LinesNamed(call.arg, CookieNames) # {}
    /\ LinesNamed(call.arg, CookieNames) # {} =>
         /\ call.out.cookies = CookiesOf(LastValue(call.arg, CookieNames))
         /\ LastValue(call.arg, CookieNames) = "x=1; y=2" =>
              call.out.cookies = [k \in {"x", "y"} |-> IF k = "x" THEN "1" ELSE "2"]

\* a request with the header "Cookie: x=1 ;<TAB>y=2" was parsed into the two
\* cookies x and y
C21_Witness ==
  /\ call.op = "parse_request"
  /\ call.arg = "GET /p HTTP/1.1" \o CRLF \o "Cookie: x=1 ;\ty=2" \o CRLF \o CRLF
  /\ call.out.cookies = [k \in {"x", "y"} |-> IF k = "x" THEN "1" ELSE "2"]

-----------------------------------------------------------------------------
(* RESTClient.                                                             *)

\* the methods of RESTClient that send one request each
DirectOps == { "get", "post", "put", "patch", "del", "get_paginated" }

\* the header that the authentication configured on client c stands for:
\* its key, "" when there is none
AuthKey(c) ==
  CASE c.auth_type_ \in {"Bearer", "Basic"} -> "Authorization"
    [] c.auth_type_ = "ApiKey" -> c.api_key_header_
    [] OTHER -> ""

\* C22: in the headers RESTClient sends for any request (get, post, put,
\* patch, del, get_paginated), a header supplied at the call site overrides a
\* default header and an authentication-derived header with the same key,
\* and the authentication header overrides a default header with the same
\* key.
C22_CallSiteHeadersWin ==
  call.op \in DirectOps =>
    /\ \A k \in DOMAIN call.arg.headers :
         k \in DOMAIN call.before.default_headers_ \/ k = AuthKey(call.before) =>
           call.out.headers[k] = call.arg.headers[k]
    /\ /\ call.before.auth_type_ = "Bearer"
       /\ "Authorization" \in DOMAIN call.before.default_headers_
       /\ "Authorization" \notin DOMAIN call.arg.headers
       => call.out.headers["Authorization"] = "Bearer " \o call.before.auth_token_

\* C23: every RESTClient call (get, post, put, patch, del, get_paginated and
\* the resource helpers built on them) returns the response body when the
\* response status is in 200..299 and otherwise raises a RESTException
\* carrying exactly the response's status code, status message and body; no
\* status outside 200..299 returns normally.
C23_NonOkRaisesRestException ==
  call.op \in RequestOps =>
    IF call.arg.response.status_code \in 200..299
    THEN /\ call.out.kind = "return"
         /\ call.op \notin {"get_paginated", "destroy"} =>
              call.out.value = call.arg.response.body
         /\ call.op = "get_paginated" => call.out.value.data = call.arg.response.body
    ELSE /\ call.out.kind = "throw"
         /\ call.out.exc.type = "rest"
         /\ call.out.exc.status_code = call.arg.response.status_code
         /\ call.out.exc.status_message = call.arg.response.status_message
         /\ call.out.exc.what = call.arg.response.body

-----------------------------------------------------------------------------
(* The body read of the connection handler.                                *)

\* the length of the header block of a wire: up to and including the first
\* blank line
HeaderBlockLen(wire) == Len(wire) - Len(BodyBytes(wire))

\* the connection's thread is past parse_request
Parsed(k) == k.pc \in {"send", "close", "done", "dead"} /\ k.caught.what # "stoull"

\* C24: when the request declares Content-Length N > 0, the connection
\* handler invokes the parser on a buffer made of the header block followed
\* by exactly N body bytes, so the parsed Request's body has length N, even
\* when the transport's recv(N) returns fewer than N bytes in one call (the
\* client having sent the N bytes).
C24_BodyReadInFull ==
  \A c \in DOMAIN conns : With(conns[c], LAMBDA k :
    (/\ Parsed(k)
     /\ k.content_length > 0
     /\ Len(BodyBytes(k.wire)) >= k.content_length)
    => /\ k.raw_request = SubSeq(k.wire, 1, HeaderBlockLen(k.wire) + k.content_length)
       /\ Len(k.request.body) = k.content_length)

\* the casings in which the Content-Length header is written
ContentLengthNames == {"Content-Length", "content-length", "CONTENT-LENGTH"}

\* the header block has a content-length header, in any casing, whose value
\* is a number other than zero
DeclaresBody(block) ==
  /\ LinesNamed(block, ContentLengthNames) # {}
  /\ With(LastValue(block, ContentLengthNames), LAMBDA v :
       v # "" /\ IsDigit(CharAt(v, 1)) /\ DigitsToNat(v, 1, 0) # 0)

\* C25: the connection handler performs the second (body) read if and only
\* if the parsed Request has a content-length header (name compared
\* case-insensitively) with a non-zero value: a header written
\* "content-length: 5" triggers the body read, and the text "Content-Length:"
\* occurring in the request target, in another header's name (e.g.
\* X-Content-Length) or in a header value does not.
C25_BodyReadIffContentLengthHeader ==
  \A c \in DOMAIN conns : With(conns[c], LAMBDA k :
    (k.pc # "recvuntil" /\ k.caught.what # "stoull") =>
      ((k.content_length > 0)
         <=> DeclaresBody(SubSeq(k.wire, 1, HeaderBlockLen(k.wire)))))

-----------------------------------------------------------------------------
(* The middleware pipeline.                                                *)

\* the user's middleware m returns true (continue) for the connection's
\* request
Continues(m, k) ==
  With(MiddlewareCall(m, RequestOf(k), HttpResponse(200)), LAMBDA r :
    r.kind = "return" /\ r.ret)

\* C26: middlewares are invoked in the order they were registered with
\* use_middleware, each at most once per request, and a middleware is invoked
\* only if every middleware registered before it returned continue for that
\* request.
C26_MiddlewaresInOrder ==
  \A c \in DOMAIN conns : With(Events(conns[c], {"middleware"}), LAMBDA called :
    /\ called = 1..Cardinality(called)
    /\ Cardinality(called) <= Len(middlewares_)
    /\ \A j \in called :
         /\ conns[c].log[j].who = middlewares_[j]
         /\ conns[c].log[j].arg = ToString(j)
         /\ \A i \in 1..(j - 1) : Continues(middlewares_[i], conns[c]))

\* "deny" was registered before "tag"; the request was answered after "deny"
\* alone was invoked
C26_Witness ==
  \E c \in DOMAIN conns :
    /\ middlewares_ = << "deny", "tag" >>
    /\ Sent(conns[c])
    /\ Events(conns[c], {"middleware"}) = {1}
    /\ conns[c].log[1].who = "deny"

-----------------------------------------------------------------------------
(* Static files in the dispatch chain.                                     *)

\* what the static resolver makes of the connection's request
StaticOutcome(k) == handle_static_file(static_routes_, RequestOf(k)).resp

\* all middlewares continued and no route has the request's key
FellToStatic(k) ==
  /\ Dispatched(k)
  /\ RouteKeyOf(k) \notin DOMAIN routes_
  /\ MiddlewareOutcome(k).kind = "continue"

\* C27: when no exact route matches and static-file resolution yields a
\* status other than 404 (200, 403 or 500), that static response is the one
\* sent and the "GET /404" handler is not invoked.
C27_StaticResponseSent ==
  \A c \in DOMAIN conns :
    FellToStatic(conns[c]) =>
      With(StaticOutcome(conns[c]), LAMBDA st :
        st.status_code # 404 =>
          /\ st.status_code \in {200, 403, 500}
          /\ Events(conns[c], {"not_found", "route", "user"}) = {}
          /\ conns[c].pc \in {"send", "close", "done"}
          /\ conns[c].response = st
          /\ conns[c].pc \in {"close", "done"} => conns[c].sent = << to_string(st) >>)

\* with a route table that holds a "GET /404" handler, a request for an
\* unreadable file under /static/ was answered with the resolver's 500
C27_Witness ==
  \E c \in DOMAIN conns :
    /\ Sent(conns[c])
    /\ NotFoundKey \in DOMAIN routes_
    /\ FellToStatic(conns[c])
    /\ StaticOutcome(conns[c]).status_code = 500
    /\ conns[c].response.body = "Internal Server Error"

-----------------------------------------------------------------------------
(* The choice of the static prefix.                                        *)

\* the registered prefixes that are literal prefixes of path
MatchingPrefixes(path) ==
  { p \in DOMAIN static_routes_ : Len(p) <= Len(path) /\ SubSeq(path, 1, Len(p)) = p }

\* the lexicographically smallest of prefixes of one path: the one that every
\* other one extends
SmallestPrefix(ps) ==
  CHOOSE p \in ps : \A q \in ps : Len(p) <= Len(q) /\ SubSeq(q, 1, Len(p)) = p

\* the longest of prefixes of one path
LongestPrefix(ps) == CHOOSE p \in ps : \A q \in ps : Len(q) <= Len(p)

\* C28: among the registered static prefixes that are literal prefixes of
\* the request path, the static resolver uses the lexicographically smallest
\* one, independent of the order in which serve_static was called, and
\* returns that prefix's outcome (200, 403, 404 or 500) without trying any
\* other matching prefix.
C28_SmallestPrefixDecides ==
  call.op = "handle_static_file" =>
    With(MatchingPrefixes(call.arg), LAMBDA ps :
      IF ps = {}
      THEN call.out.resp.status_code = 404 /\ call.out.fs = << >>
      ELSE With(SmallestPrefix(ps), LAMBDA p :
             /\ call.out = StaticUnder(p, static_routes_[p], call.arg)
             /\ call.out.resp.status_code \in {200, 403, 404, 500}
             /\ Len(call.out.fs) <= 1))

\* with "/" and "/static/" both registered, /static/a.txt was looked up
\* under "/" only and not found, although ./public/a.txt exists
C28_Witness ==
  /\ call.op = "handle_static_file"
  /\ call.arg = "/static/a.txt"
  /\ MatchingPrefixes(call.arg) = {"/", "/static/"}
  /\ call.out.resp.status_code = 404
  /\ call.out.fs = << "./www/static/a.txt" >>

\* C29 as stated: given a request path and the static-route table, the static
\* resolver resolves the file under the longest registered prefix that is a
\* literal prefix of the path (e.g. with prefixes /a and /a/b registered,
\* /a/b/x is resolved under /a/b).
C29_LongestPrefixDecides ==
  call.op = "handle_static_file" =>
    With(MatchingPrefixes(call.arg), LAMBDA ps :
      ps # {} =>
        With(LongestPrefix(ps), LAMBDA p :
          call.out = StaticUnder(p, static_routes_[p], call.arg)))

\* the shortest of prefixes of one path
ShortestPrefix(ps) == CHOOSE p \in ps : \A q \in ps : Len(p) <= Len(q)

\* C29, amended: given a request path and the static-route table, the
\* static resolver resolves the file under the first registered prefix, in
\* the table's key order, that is a literal prefix of the path, which is the
\* shortest such prefix (e.g. with prefixes /a and /a/b registered, /a/b/x
\* is resolved under /a).
C29_ShortestPrefixDecides ==
  call.op = "handle_static_file" =>
    With(MatchingPrefixes(call.arg), LAMBDA ps :
      ps # {} =>
        With(ShortestPrefix(ps), LAMBDA p :
          call.out = StaticUnder(p, static_routes_[p], call.arg)))

\* with "/" and "/static/" registered, /static/secret was resolved under "/"
\* (404), not under "/static/", where the file exists and cannot be read (500)
C29_Witness ==
  /\ call.op = "handle_static_file"
  /\ call.arg = "/static/secret"
  /\ MatchingPrefixes(call.arg) = {"/", "/static/"}
  /\ call.out.resp.status_code = 404
  /\ StaticUnder("/static/", static_routes_["/static/"], call.arg).resp.status_code = 500

-----------------------------------------------------------------------------
(* The serialized response.                                                *)

\* the header names the calls on a response can write, in ascending order
\* of their bytes
HeaderNamesAscending == << "Content-Length", "Content-Type", "Location", "X-Tag" >>

\* where the lines of a serialized response start, up to the blank line
WireLineStarts(wire) ==
  { s \in {1} \cup HeaderLineStarts(wire) : s <= HeaderBlockLen(wire) - 1 }

\* the i-th line of a serialized response
WireLine(wire, i) ==
  With(WireLineStarts(wire), LAMBDA starts :
    LineAt(wire, CHOOSE s \in starts : Cardinality({ t \in starts : t < s }) = i - 1))

\* C30: HttpResponse::to_string emits, in this order: the status line
\* "HTTP/1.1 <code> <message>", a Date header, the fixed Server header,
\* every entry of headers in ascending key order, one Set-Cookie line per
\* stored cookie in the order set_cookie was called, one blank line, then
\* the body verbatim; when the body is empty nothing follows the blank line.
C30_SerializedInOrder ==
  call.op = "to_string" =>
    With(SelectSeq(HeaderNamesAscending, LAMBDA n : n \in DOMAIN call.before.headers),
         LAMBDA names :
      /\ DOMAIN call.before.headers \subseteq { HeaderNamesAscending[i] : i \in 1..4 }
      /\ Cardinality(WireLineStarts(call.out))
           = 4 + Len(names) + Len(call.before.cookies)
      /\ WireLine(call.out, 1) = "HTTP/1.1 " \o ToString(call.before.status_code)
                                    \o " " \o call.before.status_message
      /\ SubSeq(WireLine(call.out, 2), 1, 6) = "Date: "
      /\ WireLine(call.out, 3) = "Server: cpppwn-http/1.0"
      /\ \A i \in 1..Len(names) :
           WireLine(call.out, 3 + i) = names[i] \o ": " \o call.before.headers[names[i]]
      /\ \A i \in 1..Len(call.before.cookies) :
           WireLine(call.out, 3 + Len(names) + i) = "Set-Cookie: " \o call.before.cookies[i]
      /\ WireLine(call.out, 4 + Len(names) + Len(call.before.cookies)) = ""
      /\ BodyBytes(call.out) = call.before.body
      /\ Len(call.out) = HeaderBlockLen(call.out) + Len(call.before.body))

\* a response with two headers, two different cookies and an empty body was
\* serialized
C30_Witness ==
  /\ call.op = "to_string"
  /\ Cardinality(DOMAIN call.before.headers) >= 2
  /\ Len(call.before.cookies) = 2
  /\ call.before.cookies[1] # call.before.cookies[2]
  /\ call.before.body = ""
  /\ SubSeq(call.out, Len(call.out) - 3, Len(call.out)) = CRLF \o CRLF

-----------------------------------------------------------------------------
(* Properties of the connection handler and of the server's threads.       *)

\* C31: within one connection exactly one request is processed: the handler
\* parses at most one request, runs the dispatch chain at most once and sends
\* at most one response, the send comes before the close, and the bytes that
\* follow the first request on the connection are never parsed or dispatched.
C31_OneRequestPerConnection ==
  \A c \in DOMAIN conns : With(conns[c], LAMBDA k :
    /\ Len(k.sent) <= 1
    /\ k.closes <= 1
    /\ k.closes = 1 => Len(k.sent) = 1
    /\ Cardinality(Events(k, {"middleware"})) <= Len(middlewares_)
    /\ Cardinality(Events(k, {"route"})) <= 1
    /\ Cardinality(Events(k, {"static"})) <= 1
    /\ k.rpos - 1 <= HeaderBlockLen(k.wire) + k.content_length
    /\ k.raw_request = SubSeq(k.wire, 1, k.rpos - 1)
    /\ Parsed(k) => k.request = parse_request(k.raw_request))

\* a connection on which the client sent two requests back to back, after
\* the handler answered the first one and closed
C31_Witness ==
  \E c \in DOMAIN conns :
    /\ conns[c].pc = "done"
    /\ conns[c].rpos <= Len(conns[c].wire)
    /\ Len(conns[c].sent) = 1
    /\ conns[c].closes = 1
    /\ conns[c].request.path = "/ping"
    /\ Events(conns[c], {"route"}) # {}

\* the tables the connection handlers read
Tables == << routes_, middlewares_, static_routes_ >>

\* C32 as claimed: once start() has been invoked, the route table, the
\* middleware list and the static-route table are never mutated; no call of
\* route/get/post/put/del/patch, use_middleware or serve_static can change
\* them while an accept loop or a connection handler is running.
C32_TablesFrozenAfterStart ==
  [][Started => UNCHANGED Tables]_vars

\* C32: once start() has been invoked, nothing the server does (start(), the
\* accept loop, the connection handlers) mutates the route table, the
\* middleware list or the static-route table; they change only when the
\* application makes a registration call, which nothing prevents.
C32_OnlyRegistrationMutates ==
  [][(Started /\ regs' = regs) => UNCHANGED Tables]_vars

\* a started server that served a connection, no registration call having
\* been made since construction: the tables are the two routes it was
\* configured with
C32_Witness ==
  /\ Started
  /\ regs = 0
  /\ \E c \in DOMAIN conns : conns[c].pc = "done" /\ Len(conns[c].sent) = 1
  /\ DOMAIN routes_ = {"GET /ping", "POST /crash"}
  /\ middlewares_ = << >>
  /\ static_routes_ = EmptyMap

\* the client sent a whole request and the route handler it reaches, if any,
\* throws nothing
Servable(wire) == wire \in { Req("GET", "/ping", "", ""), Req("GET", "/late", "", "") }

\* C33: each accepted connection is handled on its own detached thread that
\* the acceptor never waits for: while one connection's handler is blocked
\* reading its request or running its handler, the accept loop still accepts
\* other connections and they are served to completion, in any relative
\* order.
C33_ConnectionsServedIndependently ==
  \A c \in 1..MaxConns :
    (c \in DOMAIN conns /\ Servable(conns[c].wire))
      ~> (c \in DOMAIN conns /\ conns[c].pc = "done" /\ Len(conns[c].sent) = 1)

\* enable_cors was called on the server
CorsEnabled == \E i \in DOMAIN middlewares_ : middlewares_[i] = "cors"

\* the response carries the three headers with the configured values
HasCorsHeaders(response) ==
  /\ {"Access-Control-Allow-Origin", "Access-Control-Allow-Methods",
      "Access-Control-Allow-Headers"} \subseteq DOMAIN response.headers
  /\ response.headers["Access-Control-Allow-Origin"] = CorsConfig.origin
  /\ response.headers["Access-Control-Allow-Methods"] = CorsConfig.methods
  /\ response.headers["Access-Control-Allow-Headers"] = CorsConfig.headers

\* C34: after RESTServer::enable_cors(origin, methods, headers), every
\* response the server sends for a request that reaches a route handler, the
\* static resolver or the not-found handler carries the headers
\* Access-Control-Allow-Origin, Access-Control-Allow-Methods and
\* Access-Control-Allow-Headers with the configured values.
C34_CorsHeadersOnResponses ==
  \A c \in DOMAIN conns :
    (/\ CorsEnabled
     /\ Sent(conns[c])
     /\ Events(conns[c], {"route", "static", "not_found"}) # {})
    => /\ HasCorsHeaders(conns[c].response)
       /\ Occurs(conns[c].sent[1], "Access-Control-Allow-Origin: " \o CorsConfig.origin \o CRLF)

\* the threads that are inside the accept loop of start()
InAcceptLoop == { t \in Starters : startPc[t] \in {"loop", "accept"} }

\* C35: for every interleaving of two or more concurrent start() calls on the
\* same HttpServer, at most one of them enters the accept loop and every
\* other one fails with "Server is already running"; two accept loops never
\* run on the same listener at once.
C35_AtMostOneAcceptLoop == Cardinality(InAcceptLoop) <= 1

\* C36: no connection handler thread reads the server's route table,
\* middleware list or static-route table after the HttpServer object has been
\* destroyed: when the destructor (which only calls stop()) returns, every
\* connection handler spawned by the accept loop has finished.
C36_HandlersDoneAtDestruction ==
  Destroyed => \A c \in DOMAIN conns : conns[c].pc \in {"done", "dead"}

\* C37: stop() on a server whose running flag is false changes nothing and
\* does not close the listener; over any interleaving of stop() calls (the
\* destructor's included) the listening endpoint is closed at most once per
\* start(), and is_running() is false after any stop() has returned.
C37_StopClosesOnce ==
  [][\A t \in Stoppers :
       /\ (stopPc[t] = "idle" /\ stopPc'[t] = "returned")
            => (~running_ /\ UNCHANGED << running_, listener >>)
       /\ (stopPc[t] = "close" /\ stopPc'[t] = "returned") => listener = "open"
       /\ (stopPc[t] # "returned" /\ stopPc'[t] = "returned") => ~running_']_vars

====
